---- MODULE Spec2Model ----
(***************************************************************************)
(* Model of the TikTok downloader bot (rigaz29/coki): the Resource         *)
(* Governor (ResourceManager + Semaphore), the Content Fetcher             *)
(* (fetchTikTokData, sequential and race variants) and the Delivery        *)
(* Orchestrator (processTikTokUrl, handleVideo, handleImageSlideshow,      *)
(* downloadFile).                                                          *)
(*                                                                         *)
(* The specifications of the module share one set of variables; each       *)
(* leaves the state of the others at its initial value:                    *)
(*   SpecGov      NumRuns pipeline runs contending for the three           *)
(*                semaphores, with the periodic sweep and a clock;         *)
(*   SpecGovWide  the same with one more run;                              *)
(*   SpecFetch    one fetchTikTokData call (sequential or race) and the    *)
(*                dispatch that consumes its result;                       *)
(*   SpecRun      one pipeline run of the governed variant, step by step;  *)
(*   SpecTransfer one downloadFile call of any variant, attempt by attempt;*)
(*   SpecVideo    handleVideo of the three variants from its downloadFile  *)
(*                call to the end of the pipeline run;                     *)
(*   SpecImages   handleImageSlideshow of the three variants from its      *)
(*                downloads to the end of the pipeline run;                *)
(*   SpecMessage  the message:text handler of the three variants and the   *)
(*                processTikTokUrl call of each link of the message;        *)
(*   SpecLocator  getBestVideoUrl applied to every payload shape;           *)
(*   SpecCaption  generateCaption applied to descriptions around the limit; *)
(*   SpecBackoff  the retry loops of fetchTikTokData and downloadFile with  *)
(*                their waits.                                              *)
(***************************************************************************)
EXTENDS Integers, Sequences, FiniteSets, TLC

----------------------------------------------------------------------------
(* Bounds of the model *)

\* number of pipeline runs (links in flight) in SpecGov; SpecGovWide has one more
NumRuns == 2
\* number of distinct user ids in SpecGov
NumUsers == 2
\* largest number of images of an image set
MaxImages == 3

(* Program constants, scaled to the model *)

\* ADVANCED_CONFIG: the capacities of the three pools (50, 10 and 20 in the source)
maxConcurrentUsers == 1
maxConcurrentUploads == 1
maxConcurrentDownloads == 1
\* cleanupResources: the staleness threshold; one clock tick is 5 minutes
timeout == 1

Runs == 1..NumRuns
MoreRuns == 1..(NumRuns + 1)
Users == 1..NumUsers
SemNames == {"user", "upload", "download"}

\* the two tiers of the extraction service: { version: "v1" }, { version: "v2" }
Tiers == {"v1", "v2"}
\* fetchTikTokData has not returned
NoData == [type |-> "none", images |-> 0,
           video |-> [present |-> FALSE, playAddr |-> "undef", downloadAddr |-> "undef",
                      play |-> "undef", noWaterMark |-> "undef", watermark |-> "undef"]]
NoResult == [apiVersion |-> "none", data |-> NoData, by |-> "none"]
\* no permit acquired or released yet
NoPermits == [user |-> 0, upload |-> 0, download |-> <<>>]
NoneUsed == [extraction |-> "none", caption |-> "none", locator |-> "none"]

----------------------------------------------------------------------------
VARIABLES
    \* ---- Resource Governor (SpecGov)
    sem,            \* [SemNames -> [permits, waiters]]: the three Semaphores
    activeUsers,    \* the session map: userId -> Date.now() - timestamp, the age of
                    \* the entry in clock ticks, counted up to timeout + 1
    gpc,            \* position of each run
    userOf,         \* ctx.from.id of each run
    dl,             \* per run, the state of each downloadFile call
    arrived,        \* history: per semaphore, the number of acquire calls so far
    ticket,         \* history: per waiting caller, the rank of its acquire call
    maxGranted,     \* history: per semaphore, the highest rank granted so far
    leftBehind,     \* history: per semaphore, the waiters left in the queue by the
                    \* most recent release that woke a waiter
    heldFor         \* history: per run, for how many clock ticks it has held its
                    \* user permit (counted up to timeout + 1), -1 when it holds none

VARIABLES
    \* ---- Content Fetcher and the dispatch on its result (SpecFetch)
    variant,        \* "seq" (sequential fallback) or "race"; "none" outside SpecFetch
    API_CONFIG,     \* [retryWithV2OnV1Failure, v1MaxRetries, v2MaxRetries]
    fpc,            \* position of fetchTikTokData: init, running, returned, failed
    tpc,            \* per tier, the position of its retry loop
    attempt,        \* per tier, the loop variable `attempt`
    lastError,      \* <<>> for null, <<message>> for an Error
    result,         \* what fetchTikTokData returned
    errMsg,         \* the message of the Error fetchTikTokData threw
    hpc,            \* position of the dispatch and the handler
    used,           \* the tier tag the handler used: for the extraction, the caption
    calls,          \* history: per tier, the number of Tiktok.Downloader calls
    failed,         \* history: per tier, the number of failed attempts
    succeeded,      \* history: per tier, the number of successful attempts
    lastFailure     \* history: <<tier, message>> of the most recent failed attempt

VARIABLES
    \* ---- one pipeline run of the governed variant, step by step (SpecRun)
    rpc,            \* position of the run
    kind,           \* what the fetch returned: "video" or "image"
    media,          \* the number of media locators of the payload
    dls,            \* the downloadFile calls of the run: [st, attempt, size]
    files,          \* the temp files of the run that exist on disk
    filenames,      \* handleImageSlideshow: the files pushed to `filenames`
    acquired,       \* history: the acquire calls of the run that were granted
    released,       \* history: the release calls of the run
    why,            \* history: what made the run fail
    replyThrew      \* history: the failure reply itself threw

VARIABLES
    \* ---- one downloadFile call (SpecTransfer)
    dmode,          \* "file" (part_000, botx.js without streamMode), "stream"
                    \* (botx.js with streamMode) or "governed" (part_002)
    dretries,       \* the parameter `retries`
    useCookies,     \* the parameter `useCookies`, assigned by the catch block
    cookieString,   \* TRUE when loadCookies read a cookie, FALSE for null
    dattempt,       \* the loop variable `attempt`
    dpc,            \* position of the call: request, sleep, body, resolved, rejected
    requests,       \* history: per outbound request, whether it carried the Cookie header
    failures        \* history: per failed attempt, the error it failed with

VARIABLES
    \* ---- handleVideo, from its downloadFile call on (SpecVideo)
    build,          \* "disk" (part_000), "stream" (botx.js) or "governed" (part_002)
    vpc,            \* position of handleVideo and of processTikTokUrl after it
    payload,        \* the size of the payload the first downloadFile call returned
    sends,          \* history: the replyWithVideo calls: [stage, st, size]
    timedOut,       \* part_002: timeoutPromise has rejected
    earlier,        \* history: the requests of the finished downloadFile calls
    failureReply,   \* history: the catch block of processTikTokUrl sent its reply
    replyText,      \* history: which message that reply carried
    streams,        \* history, botx.js: the response streams the run opened, each
                    \* "open", "sent" (handed to a replyWithVideo) or "destroyed"
    declared        \* history, botx.js: the content-length header of the first
                    \* response: a size or "absent"

VARIABLES
    \* ---- handleImageSlideshow, from its downloads on (SpecImages)
    ibuild,         \* "disk" (part_000), "stream" (botx.js) or "governed" (part_002)
    ipc,            \* position of handleImageSlideshow and of processTikTokUrl after it
    imgs,           \* per image of data.images, the outcome of its promise: [st, via, size]
    chunks,         \* the media groups: [items, stage]
    offered,        \* history: the images handed to the messaging client in some send
    accepted,       \* history: the images of the sends the messaging client accepted
    notices         \* history: the notices replied after the sends

VARIABLES
    \* ---- the message:text handler and its processTikTokUrl calls (SpecMessage)
    mbuild,         \* "disk" (part_000), "stream" (botx.js) or "governed" (part_002)
    isGroup,        \* isGroupChat(ctx)
    mpc,            \* position of the message:text handler
    links,          \* per link of the message, its processTikTokUrl call
    batchReplies,   \* history: the 'n dari m link gagal' replies of the handler
    internalReplies \* history: the replies of bot.catch

VARIABLES
    \* ---- the helper functions, applied to inputs drawn at the start
    \* (SpecLocator, SpecCaption) and the retry loops with their waits (SpecBackoff)
    urlArgs,        \* getBestVideoUrl: its arguments [videoData, apiVersion]
    urlRet,         \* getBestVideoUrl: what it returned, "none" before the call
    desc,           \* generateCaption: data.desc || data.description || ''
    quoted,         \* generateCaption: the description part of the caption
    loop,           \* the retry loop followed: [fn, build, retries]
    lattempt,       \* the loop variable `attempt`
    lpc,            \* position of the loop: attempt, sleep, returned, threw
    waited          \* history: the delays of the setTimeout waits of the loop

govVars == <<sem, activeUsers, gpc, userOf, dl, arrived, ticket, maxGranted,
             leftBehind, heldFor>>
fetchVars == <<variant, API_CONFIG, fpc, tpc, attempt, lastError, result, errMsg,
               hpc, used, calls, failed, succeeded, lastFailure>>
runVars == <<rpc, kind, media, dls, files, filenames, acquired, released, why,
            replyThrew>>
transferVars == <<dmode, dretries, useCookies, cookieString, dattempt, dpc, requests,
                 failures>>
videoVars == <<build, vpc, payload, sends, timedOut, earlier, failureReply, replyText,
              streams, declared>>
imageVars == <<ibuild, ipc, imgs, chunks, offered, accepted, notices>>
messageVars == <<mbuild, isGroup, mpc, links, batchReplies, internalReplies>>
helperVars == <<urlArgs, urlRet, desc, quoted, loop, lattempt, lpc, waited>>
vars == <<govVars, fetchVars, runVars, transferVars, videoVars, imageVars, messageVars,
          helperVars>>
\* what the actions of the governor, of the fetcher and of the single run leave alone
nonGov == <<helperVars, fetchVars, runVars, transferVars, videoVars, imageVars, messageVars>>
nonFetch == <<helperVars, govVars, runVars, transferVars, videoVars, imageVars, messageVars>>
nonRun == <<helperVars, fetchVars, transferVars, videoVars, imageVars, messageVars, gpc, userOf, dl, arrived, ticket, maxGranted,
           leftBehind, heldFor>>
nonTransfer == <<helperVars, govVars, fetchVars, runVars, videoVars, imageVars, messageVars>>
nonVideo == <<helperVars, govVars, fetchVars, runVars, imageVars, messageVars>>
nonImages == <<helperVars, govVars, fetchVars, runVars, transferVars, videoVars, messageVars>>
nonMessage == <<helperVars, govVars, fetchVars, runVars, transferVars, videoVars, imageVars>>
nonHelper == <<govVars, fetchVars, runVars, transferVars, videoVars, imageVars,
              messageVars>>

----------------------------------------------------------------------------
(* Semaphore *)

\* constructor(permits)
Semaphore(permits) == [permits |-> permits, waiters |-> <<>>]

\* an acquire that takes a permit whether or not one is free
acquire_overdraw(S, c) ==
    [sem |-> [permits |-> S.permits - 1, waiters |-> S.waiters], granted |-> TRUE]

\* acquire(): the synchronous body of the promise executor
acquire(S, c) ==
    IF S.permits > 0
    THEN [sem |-> [permits |-> S.permits - 1, waiters |-> S.waiters], granted |-> TRUE]
    ELSE [sem |-> [permits |-> S.permits, waiters |-> Append(S.waiters, c)], granted |-> FALSE]

\* a release that wakes the most recent waiter instead of the oldest
release_lifo(S) ==
    IF Len(S.waiters) > 0
    THEN [sem |-> [permits |-> S.permits,
                   waiters |-> SubSeq(S.waiters, 1, Len(S.waiters) - 1)],
          woken |-> <<S.waiters[Len(S.waiters)]>>]
    ELSE [sem |-> [permits |-> S.permits + 1, waiters |-> S.waiters], woken |-> <<>>]

\* release(): permits++, then hand the permit to the first waiter, if any
release(S) ==
    IF Len(S.waiters) > 0
    THEN [sem |-> [permits |-> (S.permits + 1) - 1, waiters |-> Tail(S.waiters)],
          woken |-> <<Head(S.waiters)>>]
    ELSE [sem |-> [permits |-> S.permits + 1, waiters |-> S.waiters], woken |-> <<>>]

\* k successive calls of release()
RECURSIVE releaseN(_, _)
releaseN(S, k) ==
    IF k = 0 THEN [sem |-> S, woken |-> <<>>]
    ELSE LET one == release(S)
             rest == releaseN(one.sem, k - 1)
         IN [sem |-> rest.sem, woken |-> one.woken \o rest.woken]

\* the set of elements of a sequence
Range(s) == {s[i] : i \in DOMAIN s}

Max(S) == CHOOSE x \in S : \A y \in S : y <= x

\* a caller is <<run, 0>> (the run itself) or <<run, i>> (its i-th downloadFile call)
Callers == MoreRuns \X (0..MaxImages)

\* the continuation of `await acquire()` of every woken caller becomes runnable
WakePc(name, woken, pcs) ==
    [r \in MoreRuns |-> IF <<r, 0>> \in Range(woken)
                    THEN (IF name = "user" THEN "gotUser" ELSE "gotUp")
                    ELSE pcs[r]]

WakeDl(woken, d) ==
    [r \in MoreRuns |-> [i \in DOMAIN d[r] |->
        IF <<r, i>> \in Range(woken) THEN "hold" ELSE d[r][i]]]

\* history: caller c calls acquire on semaphore s
NoteAcquire(s, c, granted) ==
    /\ arrived' = [arrived EXCEPT ![s] = @ + 1]
    /\ ticket' = [ticket EXCEPT ![c] = IF granted THEN 0 ELSE arrived[s] + 1]
    /\ maxGranted' = [maxGranted EXCEPT ![s] =
                        IF granted THEN Max({@, arrived[s] + 1}) ELSE @]
    /\ UNCHANGED leftBehind

\* history: a release on semaphore s resolves the callers `woken`
NoteWake(s, woken) ==
    /\ ticket' = [c \in Callers |-> IF c \in Range(woken) THEN 0 ELSE ticket[c]]
    /\ maxGranted' = [maxGranted EXCEPT ![s] =
                        Max({@} \cup {ticket[c] : c \in Range(woken)})]
    /\ leftBehind' = [leftBehind EXCEPT ![s] =
                        IF woken = <<>> THEN @ ELSE Len(sem[s].waiters) - Len(woken)]
    /\ UNCHANGED arrived

----------------------------------------------------------------------------
(* ResourceManager and its callers: SpecGov *)

\* new ResourceManager(): the three semaphores, the empty session map; no link yet
ResourceManager ==
    /\ sem = [s \in SemNames |->
                Semaphore(CASE s = "user" -> maxConcurrentUsers
                            [] s = "upload" -> maxConcurrentUploads
                            [] OTHER -> maxConcurrentDownloads)]
    /\ activeUsers = <<>>
    /\ gpc = [r \in MoreRuns |-> "idle"]
    /\ userOf = [r \in MoreRuns |-> 1]
    /\ dl = [r \in MoreRuns |-> <<>>]
    /\ arrived = [s \in SemNames |-> 0]
    /\ ticket = [c \in Callers |-> 0]
    /\ maxGranted = [s \in SemNames |-> 0]
    /\ leftBehind = [s \in SemNames |-> 0]
    /\ heldFor = [r \in MoreRuns |-> -1]

\* no continuation of an `await acquire()` is pending in the microtask queue:
\* timers (the sweep, the clock) run only between macrotasks
NoPendingGrant == \A r \in MoreRuns : gpc[r] # "gotUser"

\* processTikTokUrl: `await resourceManager.acquireUserSlot(userId)`, up to the await
\* (links are numbered in their order of arrival, users in the order of their
\* first link; only the links of one message start within one synchronous block)
AcquireUserSlot(r, u) ==
    /\ UNCHANGED nonGov
    /\ gpc[r] = "idle"
    /\ \A q \in MoreRuns : gpc[q] = "gotUser" => userOf[q] = u
    /\ r > 1 => gpc[r - 1] # "idle"
    /\ u <= 1 + Cardinality({userOf[q] : q \in 1..(r - 1)})
    /\ LET a == acquire(sem["user"], <<r, 0>>) IN
        /\ sem' = [sem EXCEPT !["user"] = a.sem]
        /\ gpc' = [gpc EXCEPT ![r] = IF a.granted THEN "gotUser" ELSE "waitUser"]
        /\ NoteAcquire("user", <<r, 0>>, a.granted)
    /\ userOf' = [userOf EXCEPT ![r] = u]
    /\ UNCHANGED <<activeUsers, dl, heldFor>>

\* acquireUserSlot after the await: this.activeUsers.set(userId, Date.now())
RecordSlot(r) ==
    /\ UNCHANGED nonGov
    /\ gpc[r] = "gotUser"
    /\ activeUsers' = [u \in DOMAIN activeUsers \cup {userOf[r]} |->
                        IF u = userOf[r] THEN 0 ELSE activeUsers[u]]
    /\ gpc' = [gpc EXCEPT ![r] = "body"]
    /\ heldFor' = [heldFor EXCEPT ![r] = 0]
    /\ UNCHANGED <<sem, userOf, dl, arrived, ticket, maxGranted, leftBehind>>

\* processTikTokUrl: an await before the handler throws (typing, status reply,
\* fetch, edit): control goes to the catch block
BodyFails(r) ==
    /\ UNCHANGED nonGov
    /\ gpc[r] = "body"
    /\ gpc' = [gpc EXCEPT ![r] = "finishing"]
    /\ UNCHANGED <<sem, activeUsers, userOf, dl, arrived, ticket, maxGranted, leftBehind,
                   heldFor>>

\* handleVideo / handleImageSlideshow: `await resourceManager.acquireUploadSlot()`
AcquireUploadSlot(r) ==
    /\ UNCHANGED nonGov
    /\ gpc[r] = "body"
    /\ LET a == acquire(sem["upload"], <<r, 0>>) IN
        /\ sem' = [sem EXCEPT !["upload"] = a.sem]
        /\ gpc' = [gpc EXCEPT ![r] = IF a.granted THEN "gotUp" ELSE "waitUp"]
        /\ NoteAcquire("upload", <<r, 0>>, a.granted)
    /\ UNCHANGED <<activeUsers, userOf, dl, heldFor>>

\* releaseUploadSlot(), run by the handler's finally block
ReleaseUpload(r, nextPc) ==
    LET rel == release(sem["upload"]) IN
        /\ sem' = [sem EXCEPT !["upload"] = rel.sem]
        /\ gpc' = WakePc("upload", rel.woken, [gpc EXCEPT ![r] = nextPc])
        /\ NoteWake("upload", rel.woken)

\* the handler throws before any downloadFile call (no locator, an edit that
\* throws): its finally releases the upload slot
HandlerFailsEarly(r) ==
    /\ UNCHANGED nonGov
    /\ gpc[r] = "gotUp"
    /\ ReleaseUpload(r, "finishing")
    /\ UNCHANGED <<activeUsers, userOf, dl, heldFor>>

\* n downloadFile calls started in one synchronous block (one for a video, one per
\* image of a set, in index order), each up to its `await acquireDownloadSlot()`
RECURSIVE acquireEach(_, _, _, _)
acquireEach(S, r, i, n) ==
    IF i > n THEN [sem |-> S, granted |-> <<>>]
    ELSE LET a == acquire(S, <<r, i>>)
             rest == acquireEach(a.sem, r, i + 1, n)
         IN [sem |-> rest.sem, granted |-> <<a.granted>> \o rest.granted]

StartDownloads(r, n) ==
    /\ UNCHANGED nonGov
    /\ gpc[r] = "gotUp"
    /\ LET all == acquireEach(sem["download"], r, 1, n)
           got == {i \in 1..n : all.granted[i]}
       IN
        /\ sem' = [sem EXCEPT !["download"] = all.sem]
        /\ dl' = [dl EXCEPT ![r] = [i \in 1..n |-> IF i \in got THEN "hold" ELSE "wait"]]
        /\ arrived' = [arrived EXCEPT !["download"] = @ + n]
        /\ ticket' = [c \in Callers |->
                        IF c[1] = r /\ c[2] \in (1..n) \ got
                        THEN arrived["download"] + c[2] ELSE ticket[c]]
        /\ maxGranted' = [maxGranted EXCEPT !["download"] =
                            Max({@} \cup {arrived["download"] + i : i \in got})]
        /\ UNCHANGED leftBehind
    /\ gpc' = [gpc EXCEPT ![r] = "downloading"]
    /\ UNCHANGED <<activeUsers, userOf, heldFor>>

\* a downloadFile that ends without giving its download permit back
ReleaseDownload_leak(r, i) ==
    /\ UNCHANGED nonGov
    /\ gpc[r] = "downloading"
    /\ i \in DOMAIN dl[r]
    /\ dl[r][i] = "hold"
    /\ dl' = [dl EXCEPT ![r][i] = "done"]
    /\ UNCHANGED <<sem, activeUsers, gpc, userOf, heldFor, arrived, ticket, maxGranted,
                   leftBehind>>

\* downloadFile: the finally block, releaseDownloadSlot()
ReleaseDownload(r, i) ==
    /\ UNCHANGED nonGov
    /\ gpc[r] = "downloading"
    /\ i \in DOMAIN dl[r]
    /\ dl[r][i] = "hold"
    /\ LET rel == release(sem["download"]) IN
        /\ sem' = [sem EXCEPT !["download"] = rel.sem]
        /\ dl' = WakeDl(rel.woken, [dl EXCEPT ![r][i] = "done"])
        /\ NoteWake("download", rel.woken)
    /\ UNCHANGED <<activeUsers, gpc, userOf, heldFor>>

\* the handler returns or throws after every downloadFile call has settled: its
\* finally releases the upload slot
HandlerEnds(r) ==
    /\ UNCHANGED nonGov
    /\ gpc[r] = "downloading"
    /\ \A i \in DOMAIN dl[r] : dl[r][i] = "done"
    /\ ReleaseUpload(r, "finishing")
    /\ UNCHANGED <<activeUsers, userOf, dl, heldFor>>

\* releaseUserSlot(userId): this.activeUsers.delete(userId); this.userSemaphore.release()
releaseUserSlot(S, map, u) ==
    LET rel == release(S) IN
        [sem |-> rel.sem, woken |-> rel.woken,
         map |-> [v \in DOMAIN map \ {u} |-> map[v]]]

\* processTikTokUrl: the finally block
ReleaseUserSlot(r) ==
    /\ UNCHANGED nonGov
    /\ gpc[r] = "finishing"
    /\ LET rel == releaseUserSlot(sem["user"], activeUsers, userOf[r]) IN
        /\ sem' = [sem EXCEPT !["user"] = rel.sem]
        /\ activeUsers' = rel.map
        /\ gpc' = WakePc("user", rel.woken, [gpc EXCEPT ![r] = "done"])
        /\ NoteWake("user", rel.woken)
    /\ heldFor' = [heldFor EXCEPT ![r] = -1]
    /\ UNCHANGED <<userOf, dl>>

\* the session slots the sweep treats as stale: now - timestamp > timeout
StaleUsers(map) == {u \in DOMAIN map : map[u] > timeout}

\* history: the runs whose permit a sweep gives back. The sweep calls
\* releaseUserSlot once per stale entry of the map, so it gives back one permit
\* per stale user: that of the user's run that has held its permit longest
forceReleased(stale, owner, held) ==
    {r \in MoreRuns :
        /\ held[r] >= 0
        /\ owner[r] \in stale
        /\ \A q \in MoreRuns :
            (q # r /\ held[q] >= 0 /\ owner[q] = owner[r]) =>
                (held[q] < held[r] \/ (held[q] = held[r] /\ q > r))}

\* cleanupResources(): releaseUserSlot for every stale entry of activeUsers
cleanupResources ==
    /\ UNCHANGED nonGov
    /\ NoPendingGrant
    /\ LET stale == StaleUsers(activeUsers)
           rel == releaseN(sem["user"], Cardinality(stale))
       IN /\ stale # {}
          /\ sem' = [sem EXCEPT !["user"] = rel.sem]
          /\ activeUsers' = [v \in DOMAIN activeUsers \ stale |-> activeUsers[v]]
          /\ gpc' = WakePc("user", rel.woken, gpc)
          /\ NoteWake("user", rel.woken)
          /\ heldFor' = [r \in MoreRuns |->
                            IF r \in forceReleased(stale, userOf, heldFor) THEN -1
                            ELSE heldFor[r]]
    /\ UNCHANGED <<userOf, dl>>

\* one clock tick passes: every entry of the session map grows older (an age
\* past the threshold is not counted further: the sweep only compares it with
\* timeout)
Tick ==
    /\ UNCHANGED nonGov
    /\ NoPendingGrant
    /\ \E u \in DOMAIN activeUsers : activeUsers[u] <= timeout
    /\ activeUsers' = [u \in DOMAIN activeUsers |->
                        IF activeUsers[u] <= timeout THEN activeUsers[u] + 1
                        ELSE activeUsers[u]]
    /\ heldFor' = [r \in MoreRuns |->
                    IF heldFor[r] >= 0 /\ heldFor[r] <= timeout THEN heldFor[r] + 1
                    ELSE heldFor[r]]
    /\ UNCHANGED <<sem, gpc, userOf, dl, arrived, ticket, maxGranted, leftBehind>>

\* the Content Fetcher is not part of this specification
FetchIdle ==
    /\ variant = "none"
    /\ API_CONFIG = [retryWithV2OnV1Failure |-> TRUE, v1MaxRetries |-> 1, v2MaxRetries |-> 2]
    /\ fpc = "init"
    /\ tpc = [t \in Tiers |-> "idle"]
    /\ attempt = [t \in Tiers |-> 0]
    /\ lastError = <<>>
    /\ result = NoResult
    /\ errMsg = <<>>
    /\ hpc = "none"
    /\ used = NoneUsed
    /\ calls = [t \in Tiers |-> 0]
    /\ failed = [t \in Tiers |-> 0]
    /\ succeeded = [t \in Tiers |-> 0]
    /\ lastFailure = <<>>

\* no single run is followed in this specification
RunIdle ==
    /\ rpc = "none"
    /\ kind = "none"
    /\ media = 0
    /\ dls = <<>>
    /\ files = {}
    /\ filenames = {}
    /\ acquired = NoPermits
    /\ released = NoPermits
    /\ why = "none"
    /\ replyThrew = FALSE

\* no downloadFile call is followed in this specification
TransferIdle ==
    /\ dmode = "none"
    /\ dretries = 0
    /\ useCookies = FALSE
    /\ cookieString = FALSE
    /\ dattempt = 0
    /\ dpc = "idle"
    /\ requests = <<>>
    /\ failures = <<>>

\* no handleVideo call is followed in this specification
VideoIdle ==
    /\ build = "none"
    /\ vpc = "none"
    /\ payload = "none"
    /\ sends = <<>>
    /\ timedOut = FALSE
    /\ earlier = <<>>
    /\ failureReply = FALSE
    /\ replyText = "none"
    /\ streams = <<>>
    /\ declared = "none"

\* no handleImageSlideshow call is followed in this specification
ImagesIdle ==
    /\ ibuild = "none"
    /\ ipc = "none"
    /\ imgs = <<>>
    /\ chunks = <<>>
    /\ offered = {}
    /\ accepted = {}
    /\ notices = <<>>

\* no message:text handler is followed in this specification
MessageIdle ==
    /\ mbuild = "none"
    /\ isGroup = FALSE
    /\ mpc = "none"
    /\ links = <<>>
    /\ batchReplies = 0
    /\ internalReplies = 0

\* no helper function and no retry loop is followed in this specification
HelperIdle ==
    /\ urlArgs = <<>>
    /\ urlRet = "none"
    /\ desc = <<>>
    /\ quoted = <<>>
    /\ loop = <<>>
    /\ lattempt = 0
    /\ lpc = "none"
    /\ waited = <<>>

InitGov ==
    /\ ResourceManager
    /\ FetchIdle /\ RunIdle /\ TransferIdle /\ VideoIdle /\ ImagesIdle /\ MessageIdle
    /\ HelperIdle

NextGov(R) ==
    \/ \E r \in R, u \in Users : AcquireUserSlot(r, u)
    \/ \E r \in R : RecordSlot(r)
    \/ \E r \in R : BodyFails(r)
    \/ \E r \in R : AcquireUploadSlot(r)
    \/ \E r \in R : HandlerFailsEarly(r)
    \/ \E r \in R, n \in 1..MaxImages : StartDownloads(r, n)
    \/ \E r \in R, i \in 1..MaxImages : ReleaseDownload(r, i)
    \/ \E r \in R : HandlerEnds(r)
    \/ \E r \in R : ReleaseUserSlot(r)
    \/ cleanupResources
    \/ Tick

\* NumRuns links
SpecGov == InitGov /\ [][NextGov(Runs)]_vars

\* one link more
SpecGovWide == InitGov /\ [][NextGov(MoreRuns)]_vars

----------------------------------------------------------------------------
(* Claims about the Resource Governor *)

\* the callers suspended in acquire() of semaphore s
Waiting(s) ==
    CASE s = "user" -> {<<r, 0>> : r \in {q \in MoreRuns : gpc[q] = "waitUser"}}
      [] s = "upload" -> {<<r, 0>> : r \in {q \in MoreRuns : gpc[q] = "waitUp"}}
      [] OTHER -> {c \in Callers : c[2] \in DOMAIN dl[c[1]] /\ dl[c[1]][c[2]] = "wait"}

\* C1: on every semaphore the callers are granted permits in the order in which
\* they called acquire: no caller has been granted a permit while a caller that
\* called acquire before it is still waiting.
C1_FifoGrant ==
    \A s \in SemNames : \A c \in Waiting(s) :
        /\ ticket[c] > maxGranted[s]
        /\ \A d \in Waiting(s) : d # c => ticket[d] # ticket[c]

\* C1 witness: a release has handed its permit to the oldest waiter while a
\* later caller stayed in the queue behind it.
C1_Witness == \E s \in SemNames : leftBehind[s] > 0 /\ Waiting(s) # {}

\* C2 (as claimed): the session map never holds more than maxConcurrentUsers
\* entries.
C2_SessionCeiling == Cardinality(DOMAIN activeUsers) <= maxConcurrentUsers

\* C3 (as claimed): releaseUserSlot for a user with no recorded session slot
\* leaves the user semaphore and the session map unchanged.
C3_ReleaseUnknownNoOp ==
    [][\A r \in MoreRuns :
        (gpc[r] = "finishing" /\ gpc'[r] = "done" /\ userOf[r] \notin DOMAIN activeUsers)
            => (sem'["user"] = sem["user"] /\ activeUsers' = activeUsers)]_vars

----------------------------------------------------------------------------
(* Content Fetcher: fetchTikTokData, sequential fallback and race *)

\* largest retry budget of a tier that the model configures
MaxRetries == 2

\* a field of data.video: absent, a URL string, an empty array, an array of one URL
FieldVals == {"undef", "str", "arr0", "arr1"}

Video(playAddr, downloadAddr) ==
    [present |-> TRUE, playAddr |-> playAddr, downloadAddr |-> downloadAddr,
     play |-> "undef", noWaterMark |-> "undef", watermark |-> "undef"]

\* the payloads (result.result) the extraction service answers with
Payloads ==
    { [type |-> "video", images |-> 0, video |-> Video("str", "undef")],
      [type |-> "video", images |-> 0, video |-> Video("arr1", "undef")],
      [type |-> "video", images |-> 0, video |-> Video("undef", "str")],
      [type |-> "video", images |-> 0, video |-> Video("undef", "undef")],
      [type |-> "video", images |-> 0, video |-> NoData.video],
      [type |-> "image", images |-> 1, video |-> NoData.video],
      [type |-> "image", images |-> 0, video |-> NoData.video] }

\* the messages of the errors the extraction service fails with
Msgs == {"", "e1", "e2"}

\* how one Tiktok.Downloader call ends: a success-tagged result with a payload, a
\* result that is not (with or without a message of its own), or an exception
Outcomes ==
    [k : {"ok"}, data : Payloads, msg : {""}]
    \cup [k : {"bad"}, data : {NoData}, msg : {"", "e1"}]
    \cup [k : {"throw"}, data : {NoData}, msg : Msgs]

isArray(x) == x \in {"arr0", "arr1"}
\* Boolean(x) of a field
truthy(x) == x # "undef"
\* x[0] of an array
first(x) == IF x = "arr1" THEN "str" ELSE "undef"

RECURSIVE filterBoolean(_)
filterBoolean(s) ==
    IF s = <<>> THEN <<>>
    ELSE (IF truthy(Head(s)) THEN <<Head(s)>> ELSE <<>>) \o filterBoolean(Tail(s))

\* a getBestVideoUrl that reads for v1 the field playAddr only
getBestVideoUrl_playonly(videoData, apiVersion) ==
    IF ~videoData.video.present THEN "null"
    ELSE LET v == videoData.video
         IN IF apiVersion = "v2"
            THEN (IF isArray(v.playAddr) THEN first(v.playAddr) ELSE "undef")
            ELSE (IF isArray(v.playAddr) THEN first(v.playAddr) ELSE v.playAddr)

\* getBestVideoUrl(videoData, apiVersion): "null", "undef" or "str" (a URL)
getBestVideoUrl(videoData, apiVersion) ==
    IF ~videoData.video.present THEN "null"
    ELSE LET v == videoData.video
             videoSources ==
                IF apiVersion = "v2"
                THEN (IF truthy(v.playAddr) /\ isArray(v.playAddr)
                      THEN (IF v.playAddr = "arr1" THEN <<"str">> ELSE <<>>)
                      ELSE <<>>)
                ELSE filterBoolean(<<v.playAddr, v.downloadAddr, v.play,
                                     v.noWaterMark, v.watermark>>)
             bestUrl == IF videoSources = <<>> THEN "undef" ELSE videoSources[1]
         IN IF isArray(bestUrl) THEN first(bestUrl) ELSE bestUrl

\* API_CONFIG.v1MaxRetries / v2MaxRetries
maxRetries(t) == IF t = "v1" THEN API_CONFIG.v1MaxRetries ELSE API_CONFIG.v2MaxRetries

\* a guard that forgets the retryWithV2OnV1Failure switch
tierEnabled_always(t) == maxRetries(t) > 0

\* the guards in front of the two tiers
tierEnabled(t) ==
    IF t = "v1" THEN API_CONFIG.v1MaxRetries > 0
    ELSE API_CONFIG.retryWithV2OnV1Failure /\ API_CONFIG.v2MaxRetries > 0

\* a loop that runs one attempt too many
inLoop_onemore(a, max) == a <= max + 1

\* the loop condition `attempt <= API_CONFIG.vNMaxRetries`
inLoop(a, max) == a <= max

\* a catch block that keeps the first error
caught_first(prev, e) == IF prev = <<>> THEN <<e>> ELSE prev

\* the catch block: lastError = error
caught(prev, e) == <<e>>

\* a result tagged v1 whatever tier produced it
tagged_v1(data, t) == [apiVersion |-> "v1", data |-> data, by |-> t]

\* { ...result, apiVersion: 'vN' } (`by` is history: the tier that was asked)
tagged(data, t) == [apiVersion |-> t, data |-> data, by |-> t]

\* new Error(result?.message || "vN API returned unsuccessful status")
unsuccessful(msg, t) ==
    IF msg # "" THEN msg
    ELSE IF t = "v1" THEN "v1 API returned unsuccessful status"
    ELSE "v2 API returned unsuccessful status"

\* new Error(`Both v1 and v2 APIs failed. Last error: ${lastError?.message || 'Unknown error'}`)
bothFailed(err) ==
    <<"Both v1 and v2 APIs failed. Last error: ",
      IF err = <<>> \/ err[1] = "" THEN "Unknown error" ELSE err[1]>>

InitFetch ==
    /\ ResourceManager
    /\ MessageIdle
    /\ RunIdle
    /\ TransferIdle
    /\ VideoIdle
    /\ ImagesIdle
    /\ variant \in {"seq", "race"}
    /\ API_CONFIG \in [retryWithV2OnV1Failure : BOOLEAN,
                       v1MaxRetries : 0..MaxRetries, v2MaxRetries : 0..MaxRetries]
    /\ fpc = "init"
    /\ tpc = [t \in Tiers |-> "idle"]
    /\ attempt = [t \in Tiers |-> 0]
    /\ lastError = <<>>
    /\ result = NoResult
    /\ errMsg = <<>>
    /\ hpc = "none"
    /\ used = NoneUsed
    /\ calls = [t \in Tiers |-> 0]
    /\ failed = [t \in Tiers |-> 0]
    /\ succeeded = [t \in Tiers |-> 0]
    /\ lastFailure = <<>>
    /\ HelperIdle

\* fetchTikTokData throws: every tier is exhausted (or none is enabled)
Throw(err) ==
    /\ fpc' = "failed"
    /\ errMsg' = bothFailed(err)
    /\ UNCHANGED result

\* tier t enters its loop with attempt a: the next Tiktok.Downloader call, or the
\* end of the loop. `tp` and `err` are tpc and lastError as updated so far
Loop(t, a, tp, err) ==
    IF inLoop(a, maxRetries(t))
    THEN /\ attempt' = [attempt EXCEPT ![t] = a]
         /\ tpc' = [tp EXCEPT ![t] = "call"]
         /\ calls' = [calls EXCEPT ![t] = @ + 1]
         /\ UNCHANGED <<fpc, errMsg, result>>
    ELSE IF variant = "seq" /\ t = "v1" /\ tierEnabled("v2")
    THEN \* sequential fallback: the v2 loop follows, with its first call
         /\ attempt' = [attempt EXCEPT !["v1"] = a, !["v2"] = 1]
         /\ tpc' = [tp EXCEPT !["v1"] = "threw", !["v2"] = "call"]
         /\ calls' = [calls EXCEPT !["v2"] = @ + 1]
         /\ UNCHANGED <<fpc, errMsg, result>>
    ELSE \* the loop of the tier is over: `throw lastError` (race), or the
         \* final throw (sequential)
         /\ attempt' = [attempt EXCEPT ![t] = a]
         /\ tpc' = [tp EXCEPT ![t] = "threw"]
         /\ UNCHANGED calls
         /\ IF variant = "seq"
               \/ \A o \in Tiers \ {t} : tp[o] \in {"idle", "threw"}
            THEN Throw(err)
            ELSE UNCHANGED <<fpc, errMsg, result>>

\* fetchTikTokData is called: the synchronous part up to the first await
FetchStart ==
    /\ UNCHANGED nonFetch
    /\ fpc = "init"
    /\ UNCHANGED <<lastError, failed, succeeded, lastFailure>>
    /\ IF variant = "seq"
       THEN IF tierEnabled("v1")
            THEN /\ fpc' = "running"
                 /\ tpc' = [tpc EXCEPT !["v1"] = "call"]
                 /\ attempt' = [attempt EXCEPT !["v1"] = 1]
                 /\ calls' = [calls EXCEPT !["v1"] = @ + 1]
                 /\ UNCHANGED <<errMsg, result>>
            ELSE IF tierEnabled("v2")
            THEN /\ fpc' = "running"
                 /\ tpc' = [tpc EXCEPT !["v2"] = "call"]
                 /\ attempt' = [attempt EXCEPT !["v2"] = 1]
                 /\ calls' = [calls EXCEPT !["v2"] = @ + 1]
                 /\ UNCHANGED <<errMsg, result>>
            ELSE /\ Throw(lastError)
                 /\ UNCHANGED <<tpc, attempt, calls>>
       ELSE \* race: the v1 loop makes its first call, the v2 loop starts its
            \* 1000 ms wait; Promise.any of no promise rejects at once
            /\ tpc' = [t \in Tiers |->
                        IF ~tierEnabled(t) THEN "idle"
                        ELSE IF t = "v1" THEN "call" ELSE "wait"]
            /\ attempt' = [attempt EXCEPT !["v1"] = IF tierEnabled("v1") THEN 1 ELSE @]
            /\ calls' = [calls EXCEPT !["v1"] = IF tierEnabled("v1") THEN @ + 1 ELSE @]
            /\ IF \E t \in Tiers : tierEnabled(t)
               THEN fpc' = "running" /\ UNCHANGED <<errMsg, result>>
               ELSE Throw(lastError)
    /\ UNCHANGED <<variant, API_CONFIG, hpc, used>>

\* race: the 1000 ms head start of v1 is over, the v2 loop starts
V2Starts ==
    /\ UNCHANGED nonFetch
    /\ tpc["v2"] = "wait"
    /\ attempt' = [attempt EXCEPT !["v2"] = 1]
    /\ tpc' = [tpc EXCEPT !["v2"] = "call"]
    /\ calls' = [calls EXCEPT !["v2"] = @ + 1]
    /\ UNCHANGED <<variant, API_CONFIG, fpc, lastError, result, errMsg, hpc, used,
                   failed, succeeded, lastFailure>>

\* a Tiktok.Downloader call of tier t answers with a success-tagged result: the
\* tier returns it tagged; the fetch returns it (race: if it is the first)
Succeeds(t, out) ==
    /\ UNCHANGED nonFetch
    /\ tpc[t] = "call"
    /\ out.k = "ok"
    /\ tpc' = [tpc EXCEPT ![t] = "returned"]
    /\ succeeded' = [succeeded EXCEPT ![t] = @ + 1]
    /\ IF fpc = "running"
       THEN fpc' = "returned" /\ result' = tagged(out.data, t)
       ELSE UNCHANGED <<fpc, result>>
    /\ UNCHANGED <<variant, API_CONFIG, attempt, lastError, errMsg, hpc, used,
                   calls, failed, lastFailure>>

\* a Tiktok.Downloader call of tier t fails (an exception, or a result that is
\* not a success): the catch block, then the backoff or the end of the loop
Fails(t, out) ==
    /\ UNCHANGED nonFetch
    /\ tpc[t] = "call"
    /\ out.k # "ok"
    /\ LET e == IF out.k = "bad" THEN unsuccessful(out.msg, t) ELSE out.msg
           err == caught(lastError, e)
       IN /\ lastError' = err
          /\ failed' = [failed EXCEPT ![t] = @ + 1]
          /\ lastFailure' = <<t, e>>
          /\ IF attempt[t] < maxRetries(t)
             THEN /\ tpc' = [tpc EXCEPT ![t] = "sleep"]
                  /\ UNCHANGED <<attempt, calls, fpc, errMsg, result>>
             ELSE Loop(t, attempt[t] + 1, tpc, err)
    /\ UNCHANGED <<variant, API_CONFIG, hpc, used, succeeded>>

\* the backoff delay of tier t is over: attempt++ and the loop condition
Retry(t) ==
    /\ UNCHANGED nonFetch
    /\ tpc[t] = "sleep"
    /\ Loop(t, attempt[t] + 1, tpc, lastError)
    /\ UNCHANGED <<variant, API_CONFIG, lastError, hpc, used, failed, succeeded,
                   lastFailure>>

\* result.apiVersion || 'v1'
apiVersionOf(res) == IF res.apiVersion = "none" THEN "v1" ELSE res.apiVersion

\* data.type === "image" || (data.images && data.images.length > 0)
isImageSet(data) == data.type = "image" \/ data.images > 0

\* processTikTokUrl after the fetch: the status edit throws
EditThrows ==
    /\ UNCHANGED nonFetch
    /\ fpc = "returned" /\ hpc = "none"
    /\ hpc' = "Errored"
    /\ UNCHANGED <<variant, API_CONFIG, fpc, tpc, attempt, lastError, result, errMsg,
                   used, calls, failed, succeeded, lastFailure>>

\* handleVideo up to the transfer: the locator is extracted by the rules of the tag
HandleVideo ==
    /\ UNCHANGED nonFetch
    /\ fpc = "returned" /\ hpc = "none"
    /\ ~isImageSet(result.data)
    /\ LET apiVersion == apiVersionOf(result)
           videoUrl == getBestVideoUrl(result.data, apiVersion)
       IN /\ used' = [used EXCEPT !.extraction = apiVersion, !.locator = videoUrl]
          /\ hpc' = IF videoUrl \in {"null", "undef"} THEN "Errored" ELSE "transfer"
    /\ UNCHANGED <<variant, API_CONFIG, fpc, tpc, attempt, lastError, result, errMsg,
                   calls, failed, succeeded, lastFailure>>

\* handleImageSlideshow up to the transfers
HandleImageSlideshow ==
    /\ UNCHANGED nonFetch
    /\ fpc = "returned" /\ hpc = "none"
    /\ isImageSet(result.data)
    /\ used' = [used EXCEPT !.locator = IF result.data.images = 0 THEN "undef" ELSE "images"]
    /\ hpc' = IF result.data.images = 0 THEN "Errored" ELSE "transfer"
    /\ UNCHANGED <<variant, API_CONFIG, fpc, tpc, attempt, lastError, result, errMsg,
                   calls, failed, succeeded, lastFailure>>

\* the transfer or the validation fails, or a status edit throws
TransferFails ==
    /\ UNCHANGED nonFetch
    /\ hpc = "transfer"
    /\ hpc' = "Errored"
    /\ UNCHANGED <<variant, API_CONFIG, fpc, tpc, attempt, lastError, result, errMsg,
                   used, calls, failed, succeeded, lastFailure>>

\* generateCaption(data, isPhoto, size, apiVersion), then the send: delivered or not
Deliver(ok) ==
    /\ UNCHANGED nonFetch
    /\ hpc = "transfer"
    /\ used' = [used EXCEPT !.caption = apiVersionOf(result)]
    /\ hpc' = IF ok THEN "Done" ELSE "Errored"
    /\ UNCHANGED <<variant, API_CONFIG, fpc, tpc, attempt, lastError, result, errMsg,
                   calls, failed, succeeded, lastFailure>>

NextFetch ==
    \/ FetchStart
    \/ V2Starts
    \/ \E t \in Tiers, out \in Outcomes : Succeeds(t, out)
    \/ \E t \in Tiers, out \in Outcomes : Fails(t, out)
    \/ \E t \in Tiers : Retry(t)
    \/ EditThrows
    \/ HandleVideo
    \/ HandleImageSlideshow
    \/ TransferFails
    \/ \E ok \in BOOLEAN : Deliver(ok)

SpecFetch == InitFetch /\ [][NextFetch]_vars

----------------------------------------------------------------------------
(* Claims about the Content Fetcher *)

\* C6: one fetch calls the primary tier at most v1MaxRetries times and the
\* secondary tier at most v2MaxRetries times, in the sequential and in the race
\* variant, whatever the extraction service answers.
C6_RetryBudget ==
    /\ calls["v1"] <= API_CONFIG.v1MaxRetries
    /\ calls["v2"] <= API_CONFIG.v2MaxRetries

\* C6 witness: a race in which both tiers used up a budget of more than one
\* attempt, the secondary tier still retrying after the fetch returned.
C6_Witness ==
    /\ variant = "race"
    /\ \A t \in Tiers : maxRetries(t) > 1 /\ calls[t] = maxRetries(t)
    /\ fpc = "returned"
    /\ failed["v2"] = maxRetries("v2")

\* C7: in the sequential variant the secondary tier is called only after all
\* v1MaxRetries primary attempts have failed, never after a primary attempt
\* succeeded, and never when retryWithV2OnV1Failure is false.
C7_SecondaryOnlyAfterPrimary ==
    (variant = "seq" /\ calls["v2"] > 0) =>
        /\ failed["v1"] = API_CONFIG.v1MaxRetries
        /\ succeeded["v1"] = 0
        /\ API_CONFIG.retryWithV2OnV1Failure

\* C7 witness: the sequential fetch calls the secondary tier after two failed
\* primary attempts.
C7_Witness ==
    /\ variant = "seq"
    /\ calls["v2"] > 0
    /\ API_CONFIG.v1MaxRetries > 1
    /\ failed["v1"] = API_CONFIG.v1MaxRetries

\* C8: the apiVersion tag of a returned result names the tier whose attempt
\* produced the payload, and the handler uses that tag for the locator
\* extraction and for the caption.
C8_TagNamesProducer ==
    /\ fpc = "returned" => result.apiVersion = result.by
    /\ used.extraction # "none" => used.extraction = result.by
    /\ used.caption # "none" => used.caption = result.by

\* C8 witness: every primary attempt failed, a secondary attempt succeeded, the
\* locator was extracted by the v2 rules and the run reached Done.
C8_Witness ==
    /\ tierEnabled("v1")
    /\ failed["v1"] = API_CONFIG.v1MaxRetries
    /\ result.by = "v2"
    /\ used = [extraction |-> "v2", caption |-> "v2", locator |-> "str"]
    /\ hpc = "Done"

\* C9 (as claimed): fetch never returns a result whose payload carries no media
\* locator (no image, and no video locator under the rules of either tier).
C9_NoReturnWithoutLocator ==
    fpc = "returned" =>
        \/ result.data.images > 0
        \/ \E t \in Tiers : getBestVideoUrl(result.data, t) = "str"

\* C10: fetch fails if and only if every attempt of every enabled tier has
\* failed, and the error carries the message of the most recent failed attempt.
C10_FailsIffAllFailed ==
    /\ fpc # "init" =>
        (fpc = "failed" <=> \A t \in Tiers : tierEnabled(t) => failed[t] = maxRetries(t))
    /\ (fpc = "failed" /\ lastFailure # <<>>) =>
        (lastFailure[2] = "" \/ errMsg[2] = lastFailure[2])

\* C10 witness: a race fails, both tiers having failed, the primary tier last and
\* with another message than the secondary.
C10_Witness ==
    /\ variant = "race"
    /\ fpc = "failed"
    /\ \A t \in Tiers : failed[t] > 0
    /\ lastFailure = <<"v1", "e2">>
    /\ errMsg[2] = "e2"
    /\ tpc["v2"] = "threw"

----------------------------------------------------------------------------
(* One pipeline run of the governed variant: processTikTokUrl, handleVideo,   *)
(* handleImageSlideshow, downloadFile                                        *)

\* downloadFile(url, filename, userId, retries = 3, useCookies = false)
retries == 3

\* what a finished transfer measures: stats.size is 0, below 1024, or at least 1024
Sizes == {"zero", "small", "big"}

\* the payloads the fetch returns to the run: a video with or without a locator,
\* an image set of 0..MaxImages images
Fetched == {<<"video", 0>>, <<"video", 1>>} \cup {<<"image", n>> : n \in 0..MaxImages}

\* the awaited messaging-client calls that may throw: typing, the status reply and
\* the "Memproses" edit in processTikTokUrl; the edits, the separate caption and
\* the warning reply inside a handler
OuterSteps == {"typing", "status", "edit"}
HandlerSteps == {"hv_edit", "hv_edit2", "caption", "hi_edit", "hi_edit2", "hi_warn"}

\* where the run continues when the call returns
nextOf(pc) ==
    CASE pc = "typing" -> "status"
      [] pc = "status" -> "fetch"
      [] pc = "edit" -> "handler"
      [] pc = "hv_edit" -> "download"
      [] pc = "hv_edit2" -> "send1"
      [] pc = "caption" -> "hreturn"
      [] pc = "hi_edit" -> "download"
      [] pc = "hi_edit2" -> "hi_send"
      [] OTHER -> "hreturn"

InitRun ==
    /\ ResourceManager
    /\ MessageIdle
    /\ FetchIdle
    /\ TransferIdle
    /\ VideoIdle
    /\ ImagesIdle
    /\ rpc = "start"
    /\ kind = "none"
    /\ media = 0
    /\ dls = <<>>
    /\ files = {}
    /\ filenames = {}
    /\ acquired = NoPermits
    /\ released = NoPermits
    /\ why = "none"
    /\ replyThrew = FALSE
    /\ HelperIdle

\* processTikTokUrl: await resourceManager.acquireUserSlot(userId), userId = 1
StartRun ==
    /\ rpc = "start"
    /\ LET a == acquire(sem["user"], <<1, 0>>) IN
        /\ a.granted
        /\ sem' = [sem EXCEPT !["user"] = a.sem]
    /\ activeUsers' = [u \in DOMAIN activeUsers \cup {1} |-> IF u = 1 THEN 0 ELSE activeUsers[u]]
    /\ acquired' = [acquired EXCEPT !.user = @ + 1]
    /\ rpc' = "typing"
    /\ UNCHANGED <<kind, media, dls, files, filenames, released, why, replyThrew>>
    /\ UNCHANGED nonRun

\* an awaited messaging-client call returns
ClientCallReturns ==
    /\ rpc \in OuterSteps \cup HandlerSteps
    /\ rpc' = nextOf(rpc)
    /\ UNCHANGED <<sem, activeUsers, kind, media, dls, files, filenames, acquired,
                   released, why, replyThrew>>
    /\ UNCHANGED nonRun

\* an awaited messaging-client call throws: to the catch block of the handler, or
\* to the one of processTikTokUrl
ClientCallThrows ==
    /\ rpc \in OuterSteps \cup HandlerSteps
    /\ rpc' = IF rpc \in HandlerSteps THEN "hthrow" ELSE "catch"
    /\ why' = "client"
    /\ UNCHANGED <<sem, activeUsers, kind, media, dls, files, filenames, acquired,
                   released, replyThrew>>
    /\ UNCHANGED nonRun

\* fetchTikTokData returns a payload
FetchReturns(k, n) ==
    /\ rpc = "fetch"
    /\ kind' = k
    /\ media' = n
    /\ rpc' = "edit"
    /\ UNCHANGED <<sem, activeUsers, dls, files, filenames, acquired, released, why,
                   replyThrew>>
    /\ UNCHANGED nonRun

\* fetchTikTokData throws
FetchThrows ==
    /\ rpc = "fetch"
    /\ rpc' = "catch"
    /\ why' = "fetch"
    /\ UNCHANGED <<sem, activeUsers, kind, media, dls, files, filenames, acquired,
                   released, replyThrew>>
    /\ UNCHANGED nonRun

\* handleVideo / handleImageSlideshow: await acquireUploadSlot(), then the check
\* for a locator ("No video URL found ...", "No images found ...")
HandlerStart ==
    /\ rpc = "handler"
    /\ LET a == acquire(sem["upload"], <<1, 0>>) IN
        /\ a.granted
        /\ sem' = [sem EXCEPT !["upload"] = a.sem]
    /\ acquired' = [acquired EXCEPT !.upload = @ + 1]
    /\ rpc' = IF media = 0 THEN "hthrow"
              ELSE IF kind = "video" THEN "hv_edit" ELSE "hi_edit"
    /\ why' = IF media = 0 THEN "nolocator" ELSE why
    /\ UNCHANGED <<activeUsers, kind, media, dls, files, filenames, released, replyThrew>>
    /\ UNCHANGED nonRun

\* the downloadFile calls of the handler (one for a video, one per image, started
\* in one synchronous block), each up to `await acquireDownloadSlot()`
DownloadsStart ==
    /\ rpc = "download"
    /\ LET all == acquireEach(sem["download"], 1, 1, media) IN
        /\ sem' = [sem EXCEPT !["download"] = all.sem]
        /\ dls' = [i \in 1..media |->
                    [st |-> IF all.granted[i] THEN "try" ELSE "wait",
                     attempt |-> IF all.granted[i] THEN 1 ELSE 0,
                     size |-> "none"]]
        /\ acquired' = [acquired EXCEPT !.download =
                            [i \in 1..media |-> IF all.granted[i] THEN 1 ELSE 0]]
        /\ released' = [released EXCEPT !.download = [i \in 1..media |-> 0]]
    /\ rpc' = "transfer"
    /\ UNCHANGED <<activeUsers, kind, media, files, filenames, why, replyThrew>>
    /\ UNCHANGED nonRun

\* downloadFile number i runs its finally block, releaseDownloadSlot(), and goes on
\* in state st: the oldest waiting downloadFile call enters its loop
DownloadSlotReleased(i, st) ==
    LET r == release(sem["download"])
        woken == {c[2] : c \in Range(r.woken)}
    IN /\ sem' = [sem EXCEPT !["download"] = r.sem]
       /\ dls' = [j \in DOMAIN dls |->
                    IF j = i THEN [dls[j] EXCEPT !.st = st]
                    ELSE IF j \in woken THEN [dls[j] EXCEPT !.st = "try", !.attempt = 1]
                    ELSE dls[j]]
       /\ acquired' = [acquired EXCEPT !.download =
                        [j \in DOMAIN dls |-> IF j \in woken THEN @[j] + 1 ELSE @[j]]]
       /\ released' = [released EXCEPT !.download[i] = @ + 1]

\* downloadFile: axios answers; createWriteStream, pipe, `return new Promise`: the
\* finally block runs at the return, the returned promise is still pending
AxiosResponds(i) ==
    /\ rpc = "transfer"
    /\ i \in DOMAIN dls
    /\ dls[i].st = "try"
    /\ DownloadSlotReleased(i, "stream")
    /\ files' = files \cup {i}
    /\ UNCHANGED <<activeUsers, rpc, kind, media, filenames, why, replyThrew>>
    /\ UNCHANGED nonRun

\* downloadFile: axios throws; the catch block, then the backoff or, after the
\* last attempt, the final throw and the finally block
AxiosThrows(i) ==
    /\ rpc = "transfer"
    /\ i \in DOMAIN dls
    /\ dls[i].st = "try"
    /\ IF dls[i].attempt < retries
       THEN /\ dls' = [dls EXCEPT ![i].st = "sleep"]
            /\ UNCHANGED <<sem, acquired, released>>
       ELSE DownloadSlotReleased(i, "fail")
    /\ UNCHANGED <<activeUsers, rpc, kind, media, files, filenames, why, replyThrew>>
    /\ UNCHANGED nonRun

\* downloadFile: the backoff delay is over, the next attempt
DownloadRetries(i) ==
    /\ rpc = "transfer"
    /\ i \in DOMAIN dls
    /\ dls[i].st = "sleep"
    /\ dls' = [dls EXCEPT ![i].st = "try", ![i].attempt = @ + 1]
    /\ UNCHANGED <<sem, activeUsers, rpc, kind, media, files, filenames, acquired,
                   released, why, replyThrew>>
    /\ UNCHANGED nonRun

\* the write stream finishes: resolve({ filename, size, sizeMB })
StreamFinishes(i, size) ==
    /\ rpc = "transfer"
    /\ i \in DOMAIN dls
    /\ dls[i].st = "stream"
    /\ dls' = [dls EXCEPT ![i].st = "ok", ![i].size = size]
    /\ UNCHANGED <<sem, activeUsers, rpc, kind, media, files, filenames, acquired,
                   released, why, replyThrew>>
    /\ UNCHANGED nonRun

\* the stream or the writer fails, or the download timeout fires: unlink, reject
StreamFails(i) ==
    /\ rpc = "transfer"
    /\ i \in DOMAIN dls
    /\ dls[i].st = "stream"
    /\ dls' = [dls EXCEPT ![i].st = "fail"]
    /\ files' = files \ {i}
    /\ UNCHANGED <<sem, activeUsers, rpc, kind, media, filenames, acquired, released,
                   why, replyThrew>>
    /\ UNCHANGED nonRun

\* handleVideo: downloadFile settled; the size checks
VideoDownloaded ==
    /\ rpc = "transfer"
    /\ kind = "video"
    /\ dls[1].st \in {"ok", "fail"}
    /\ IF dls[1].st = "fail"
       THEN rpc' = "hthrow" /\ why' = "transfer"
       ELSE IF dls[1].size \in {"zero", "small"}
       THEN rpc' = "hthrow" /\ why' = "validation"
       ELSE rpc' = "hv_edit2" /\ UNCHANGED why
    /\ UNCHANGED <<sem, activeUsers, kind, media, dls, files, filenames, acquired,
                   released, replyThrew>>
    /\ UNCHANGED nonRun

\* handleImageSlideshow: Promise.allSettled(downloadPromises) resolved; a download
\* counts as fulfilled if it finished with at least 1024 bytes
ImagesSettled ==
    /\ rpc = "transfer"
    /\ kind = "image"
    /\ \A i \in DOMAIN dls : dls[i].st \in {"ok", "fail"}
    /\ LET successfulDownloads == {i \in DOMAIN dls : dls[i].st = "ok" /\ dls[i].size = "big"}
       IN /\ filenames' = successfulDownloads
          /\ IF successfulDownloads = {}
             THEN /\ rpc' = "hthrow"
                  /\ why' = IF \E i \in DOMAIN dls : dls[i].st = "ok"
                            THEN "validation" ELSE "transfer"
             ELSE rpc' = "hi_edit2" /\ UNCHANGED why
    /\ UNCHANGED <<sem, activeUsers, kind, media, dls, files, acquired, released,
                   replyThrew>>
    /\ UNCHANGED nonRun

\* handleVideo: one of the three replyWithVideo attempts settles
Send(ok) ==
    /\ rpc \in {"send1", "send2", "send3"}
    /\ rpc' = CASE ok /\ rpc = "send3" -> "caption"
                [] ok /\ rpc # "send3" -> "hreturn"
                [] ~ok /\ rpc = "send1" -> "send2"
                [] ~ok /\ rpc = "send2" -> "send3"
                [] OTHER -> "hthrow"
    /\ why' = IF ~ok /\ rpc = "send3" THEN "send" ELSE why
    /\ UNCHANGED <<sem, activeUsers, kind, media, dls, files, filenames, acquired,
                   released, replyThrew>>
    /\ UNCHANGED nonRun

\* handleImageSlideshow: Promise.allSettled(sendPromises) resolved (a send that
\* fails is logged, never thrown); then the files of `filenames` are unlinked
ImagesSent ==
    /\ rpc = "hi_send"
    /\ files' = files \ filenames
    /\ rpc' = IF \E i \in DOMAIN dls : i \notin filenames THEN "hi_warn" ELSE "hreturn"
    /\ UNCHANGED <<sem, activeUsers, kind, media, dls, filenames, acquired, released,
                   why, replyThrew>>
    /\ UNCHANGED nonRun

\* the handler returns true (handleVideo unlinks its file first); finally:
\* releaseUploadSlot()
HandlerReturns ==
    /\ rpc = "hreturn"
    /\ files' = IF kind = "video" THEN files \ {1} ELSE files
    /\ sem' = [sem EXCEPT !["upload"] = release(sem["upload"]).sem]
    /\ released' = [released EXCEPT !.upload = @ + 1]
    /\ rpc' = "post"
    /\ UNCHANGED <<activeUsers, kind, media, dls, filenames, acquired, why, replyThrew>>
    /\ UNCHANGED nonRun

\* the handler's catch block rethrows; finally: releaseUploadSlot()
HandlerThrows ==
    /\ rpc = "hthrow"
    /\ sem' = [sem EXCEPT !["upload"] = release(sem["upload"]).sem]
    /\ released' = [released EXCEPT !.upload = @ + 1]
    /\ rpc' = "catch"
    /\ UNCHANGED <<activeUsers, kind, media, dls, files, filenames, acquired, why,
                   replyThrew>>
    /\ UNCHANGED nonRun

\* a catch block that ends the run when the failure reply throws
FailureReply_nofinally(ok) ==
    /\ rpc = "catch"
    /\ rpc' = IF ok THEN "replied" ELSE "Errored"
    /\ replyThrew' = ~ok
    /\ UNCHANGED <<sem, activeUsers, kind, media, dls, files, filenames, acquired,
                   released, why>>
    /\ UNCHANGED nonRun

\* processTikTokUrl: the catch block, `await ctx.reply(...)`, which may throw
FailureReply(ok) ==
    /\ rpc = "catch"
    /\ rpc' = "replied"
    /\ replyThrew' = ~ok
    /\ UNCHANGED <<sem, activeUsers, kind, media, dls, files, filenames, acquired,
                   released, why>>
    /\ UNCHANGED nonRun

\* processTikTokUrl: the finally block, releaseUserSlot(userId), after the
\* deletions of safeDeleteMessage (which never throws) or after the catch block
Finally ==
    /\ rpc \in {"post", "replied"}
    /\ LET r == releaseUserSlot(sem["user"], activeUsers, 1) IN
        /\ sem' = [sem EXCEPT !["user"] = r.sem]
        /\ activeUsers' = r.map
    /\ released' = [released EXCEPT !.user = @ + 1]
    /\ rpc' = IF rpc = "post" THEN "Done" ELSE "Errored"
    /\ UNCHANGED <<kind, media, dls, files, filenames, acquired, why, replyThrew>>
    /\ UNCHANGED nonRun

NextRun ==
    \/ StartRun
    \/ ClientCallReturns
    \/ ClientCallThrows
    \/ \E f \in Fetched : FetchReturns(f[1], f[2])
    \/ FetchThrows
    \/ HandlerStart
    \/ DownloadsStart
    \/ \E i \in 1..MaxImages : AxiosResponds(i)
    \/ \E i \in 1..MaxImages : AxiosThrows(i)
    \/ \E i \in 1..MaxImages : DownloadRetries(i)
    \/ \E i \in 1..MaxImages, size \in Sizes : StreamFinishes(i, size)
    \/ \E i \in 1..MaxImages : StreamFails(i)
    \/ VideoDownloaded
    \/ ImagesSettled
    \/ \E ok \in BOOLEAN : Send(ok)
    \/ ImagesSent
    \/ HandlerReturns
    \/ HandlerThrows
    \/ \E ok \in BOOLEAN : FailureReply(ok)
    \/ Finally
    \/ cleanupResources
    \/ Tick

SpecRun == InitRun /\ [][NextRun]_vars

----------------------------------------------------------------------------
(* Claims about the pipeline run *)

\* C4: a run never releases a permit it did not acquire, and when it has finished
\* (Done or Errored) it has released every user, upload and download permit it
\* acquired exactly once, whatever made it fail.
C4_PermitsReturnedOnce ==
    /\ released.user <= acquired.user
    /\ released.upload <= acquired.upload
    /\ \A i \in DOMAIN released.download : released.download[i] <= acquired.download[i]
    /\ rpc \in {"Done", "Errored"} => released = acquired

\* C4 witness: the run held permits of all three pools, failed the size validation
\* and its failure reply threw; it has finished.
C4_Witness ==
    /\ rpc = "Errored"
    /\ why = "validation"
    /\ replyThrew
    /\ acquired.user = 1 /\ acquired.upload = 1
    /\ Len(acquired.download) > 1
    /\ \A i \in DOMAIN acquired.download : acquired.download[i] = 1

\* C5 (as claimed): when the run is Done or Errored no temp file it created is left.
C5_NoTempFileLeft == rpc \in {"Done", "Errored"} => files = {}

----------------------------------------------------------------------------
(* downloadFile, one call: part_000 and botx.js (file mode and streamMode),   *)
(* part_002 (governed, with the timer of the body).                           *)

\* the largest retry budget a call is started with
MaxBudget == 3

\* what an axios request fails with: error.response.status 403 or 404, error.code
\* ECONNREFUSED or ETIMEDOUT (the connection), the request timeout of
\* getAxiosConfig (ECONNABORTED), anything else
RequestErrors == {"403", "404", "ECONNREFUSED", "ETIMEDOUT", "ECONNABORTED", "other"}
\* what rejects the Promise of the body: the error of the writer or of
\* response.data, and in part_002 the timer
StreamErrors == {"error", "Download timeout"}

\* getAxiosConfig: if (useCookies && cookieString) config.headers['Cookie'] = cookieString
CookieHeader(use, cookie) == use /\ cookie

upgrade_zerobased(a, use, cookie, err) ==
    use \/ (a = 0 /\ cookie /\ err \in {"403", "ECONNREFUSED"})

\* the catch block: if (attempt === 1 && !useCookies && cookieString &&
\* (error.response?.status === 403 || error.code === 'ECONNREFUSED')) useCookies = true
upgrade(a, use, cookie, err) ==
    use \/ (a = 1 /\ cookie /\ err \in {"403", "ECONNREFUSED"})

\* downloadFile(url, filename, retries, useCookies) is called: the first iteration
\* of the loop has issued its request
InitTransfer ==
    /\ ResourceManager
    /\ MessageIdle
    /\ FetchIdle
    /\ RunIdle
    /\ VideoIdle
    /\ ImagesIdle
    /\ dmode \in {"file", "stream", "governed"}
    /\ dretries \in 1..MaxBudget
    /\ useCookies \in BOOLEAN
    /\ cookieString \in BOOLEAN
    /\ dattempt = 1
    /\ dpc = "request"
    /\ requests = <<CookieHeader(useCookies, cookieString)>>
    /\ failures = <<>>
    /\ HelperIdle

\* await axios(...) returns the response. streamMode: return { stream, size, ... };
\* otherwise response.data.pipe(writer); return new Promise(...)
ResponseArrives ==
    /\ dpc = "request"
    /\ dpc' = IF dmode = "stream" THEN "resolved" ELSE "body"
    /\ UNCHANGED <<dmode, dretries, useCookies, cookieString, dattempt, requests,
                   failures>>
    /\ UNCHANGED nonTransfer

\* await axios(...) throws: the catch block of the iteration, then either the
\* delay before the next iteration or the throw after the loop
RequestFails(err) ==
    /\ dpc = "request"
    /\ failures' = Append(failures, err)
    /\ useCookies' = upgrade(dattempt, useCookies, cookieString, err)
    /\ dpc' = IF dattempt < dretries THEN "sleep" ELSE "rejected"
    /\ UNCHANGED <<dmode, dretries, cookieString, dattempt, requests>>
    /\ UNCHANGED nonTransfer

\* the delay is over: attempt++, the next iteration issues its request
NextAttempt ==
    /\ dpc = "sleep"
    /\ dattempt' = dattempt + 1
    /\ requests' = Append(requests, CookieHeader(useCookies, cookieString))
    /\ dpc' = "request"
    /\ UNCHANGED <<dmode, dretries, useCookies, cookieString, failures>>
    /\ UNCHANGED nonTransfer

\* writer.on('finish'): resolve({ filename, size, sizeMB })
WriterFinishes ==
    /\ dpc = "body"
    /\ dpc' = "resolved"
    /\ UNCHANGED <<dmode, dretries, useCookies, cookieString, dattempt, requests,
                   failures>>
    /\ UNCHANGED nonTransfer

\* writer.on('error'), response.data.on('error') and, in part_002, the timer:
\* reject(err). The Promise was returned, not awaited, so the rejection is the
\* outcome of downloadFile: the catch block of the loop does not run.
BodyRejects(err) ==
    /\ dpc = "body"
    /\ err = "Download timeout" => dmode = "governed"
    /\ failures' = Append(failures, err)
    /\ dpc' = "rejected"
    /\ UNCHANGED <<dmode, dretries, useCookies, cookieString, dattempt, requests>>
    /\ UNCHANGED nonTransfer

NextTransfer ==
    \/ ResponseArrives
    \/ \E err \in RequestErrors : RequestFails(err)
    \/ NextAttempt
    \/ WriterFinishes
    \/ \E err \in StreamErrors : BodyRejects(err)

SpecTransfer == InitTransfer /\ [][NextTransfer]_vars

----------------------------------------------------------------------------
(* Claims about downloadFile *)

\* C11 (as claimed): a downloadFile call with retry budget R issues at most R
\* requests and fails only after R attempts have all failed, whether an attempt
\* failed at request time or while the body was streamed into the file.
C11_FailsOnlyWhenExhausted ==
    /\ Len(requests) <= dretries
    /\ dpc = "rejected" => Len(failures) = dretries

\* C12 (as claimed): an attempt that exceeds the download timeout, the timer of the
\* body in the governed variant included, counts as one failed attempt; the call
\* fails on a timeout only when the retry budget is exhausted.
C12_TimeoutIsRetried ==
    (/\ dpc = "rejected"
     /\ failures[Len(failures)] \in {"ECONNABORTED", "Download timeout"})
        => Len(failures) = dretries

\* C13 (as claimed): in a call started without the cookie, with a cookie loaded,
\* the attempt that follows any attempt failed with 403 or ECONNREFUSED carries
\* the cookie.
C13_AnyAttemptUpgrades ==
    \A k \in 1..Len(failures) :
        (/\ cookieString /\ ~requests[1]
         /\ failures[k] \in {"403", "ECONNREFUSED"}
         /\ k + 1 <= Len(requests))
            => requests[k + 1]

\* C13 (amended): in a call started without the cookie, with a cookie loaded, if
\* the first attempt fails with 403 or ECONNREFUSED the second attempt carries the
\* cookie.
C13_FirstAttemptUpgrades ==
    (/\ cookieString /\ ~requests[1]
     /\ Len(requests) >= 2
     /\ failures[1] \in {"403", "ECONNREFUSED"})
        => requests[2]

\* C13 witness: the first attempt was refused without the cookie and the second
\* request has been sent with it.
C13_Witness ==
    /\ cookieString /\ ~requests[1]
    /\ Len(requests) >= 2
    /\ failures[1] = "403"
    /\ requests[2]

----------------------------------------------------------------------------
(* handleVideo of part_000 (temp file), botx.js (stream) and part_002         *)
(* (temp file, sends raced against one timeoutPromise), from its              *)
(* downloadFile call to the end of processTikTokUrl.                          *)

Builds == {"disk", "stream", "governed"}

\* the mode of the downloadFile of each variant
ModeOf(b) ==
    CASE b = "disk" -> "file"
      [] b = "stream" -> "stream"
      [] b = "governed" -> "governed"

\* the positions of handleVideo while it awaits the send of stage k, and while
\* botx.js awaits the downloadFile that re-opens the stream for stage k
StagePc == <<"stage1", "stage2", "stage3">>
ReopenPc == <<"none", "reopen2", "reopen3">>

\* ctx.replyWithVideo(...): a send handed to the messaging client
NewSend(k, size) == [stage |-> k, st |-> "flight", size |-> size]

\* if (downloadResult.size === 0) throw ...; if (downloadResult.size < 1024) throw ...
plausible(size) == size = "big"

\* handleVideo has edited the status and awaits downloadFile(videoUrl, filename)
\* (retries = 3, useCookies = false; botx.js: streamMode = true)
InitVideo ==
    /\ ResourceManager
    /\ MessageIdle
    /\ FetchIdle
    /\ RunIdle
    /\ ImagesIdle
    /\ build \in Builds
    /\ dmode = ModeOf(build)
    /\ dretries = retries
    /\ useCookies = FALSE
    /\ cookieString \in BOOLEAN
    /\ dattempt = 1
    /\ dpc = "request"
    /\ requests = <<CookieHeader(useCookies, cookieString)>>
    /\ failures = <<>>
    /\ vpc = "download"
    /\ payload = "none"
    /\ sends = <<>>
    /\ timedOut = FALSE
    /\ earlier = <<>>
    /\ failureReply = FALSE
    /\ replyText = "none"
    /\ streams = <<>>
    /\ declared = "none"
    /\ HelperIdle

\* botx.js: await downloadFile(videoUrl, null, 2, false, true) for a later stage
Reopen ==
    /\ dmode' = "stream"
    /\ dretries' = 2
    /\ useCookies' = FALSE
    /\ dattempt' = 1
    /\ dpc' = "request"
    /\ requests' = <<CookieHeader(FALSE, cookieString)>>
    /\ failures' = <<>>
    /\ earlier' = earlier \o requests
    /\ UNCHANGED cookieString

\* the first downloadFile threw: the catch block of handleVideo rethrows
VideoTransferFails ==
    /\ vpc = "download"
    /\ dpc = "rejected"
    /\ vpc' = "thrown"
    /\ UNCHANGED <<build, payload, sends, timedOut, earlier, failureReply,
                   replyText, streams, declared>>
    /\ UNCHANGED <<transferVars, nonVideo>>

\* what the response of a stream declares as its content length: one of the
\* sizes, or no header at all
Declared == Sizes \cup {"absent"}

\* botx.js downloadFile, streamMode: size: contentLength ? parseInt(contentLength) : 0
streamSize(len) == IF len = "absent" THEN "zero" ELSE len

\* the first downloadFile returned: the two size checks. len is stats.size of the
\* file, in botx.js what the content-length header declares
VideoValidated(len) ==
    /\ vpc = "download"
    /\ dpc = "resolved"
    /\ build # "stream" => len \in Sizes
    /\ payload' = streamSize(len)
    /\ vpc' = IF plausible(streamSize(len)) THEN "status" ELSE "thrown"
    /\ streams' = IF build = "stream" THEN Append(streams, "open") ELSE streams
    /\ declared' = IF build = "stream" THEN len ELSE declared
    /\ UNCHANGED <<build, sends, timedOut, earlier, failureReply,
                   replyText>>
    /\ UNCHANGED <<transferVars, nonVideo>>

\* await ctx.api.editMessageText(...), then the send of stage 1 is handed to the
\* client; part_002 arms the timer of timeoutPromise
SendingStatus(ok) ==
    /\ vpc = "status"
    /\ IF ok
       THEN /\ sends' = <<NewSend(1, payload)>>
            /\ streams' = [k \in DOMAIN streams |-> "sent"]
            /\ vpc' = "stage1"
       ELSE /\ vpc' = "thrown"
            /\ UNCHANGED <<sends, streams>>
    /\ UNCHANGED <<build, payload, timedOut, earlier, failureReply,
                   replyText, declared>>
    /\ UNCHANGED <<transferVars, nonVideo>>

\* the messaging client accepts or rejects the send k. When handleVideo awaits it:
\* accepted, the handler returns (stage 3: replies the caption first); rejected,
\* the catch block starts the next stage (botx.js: re-opens the stream first), and
\* after stage 3 the handler throws
SendSettles(k, ok) ==
    /\ k \in DOMAIN sends
    /\ sends[k].st = "flight"
    /\ LET stage == sends[k].stage
           settled == [sends EXCEPT ![k].st = IF ok THEN "accepted" ELSE "rejected"]
       IN  IF vpc # StagePc[stage]
           THEN /\ sends' = settled
                /\ UNCHANGED <<vpc, earlier, transferVars>>
           ELSE IF ok
           THEN /\ sends' = settled
                /\ vpc' = IF stage = 3 THEN "caption" ELSE "returned"
                /\ UNCHANGED <<earlier, transferVars>>
           ELSE IF stage = 3
           THEN /\ sends' = settled
                /\ vpc' = "thrown"
                /\ UNCHANGED <<earlier, transferVars>>
           ELSE IF build = "stream"
           THEN /\ sends' = settled
                /\ vpc' = ReopenPc[stage + 1]
                /\ Reopen
           ELSE /\ sends' = Append(settled, NewSend(stage + 1, payload))
                /\ vpc' = StagePc[stage + 1]
                /\ UNCHANGED <<earlier, transferVars>>
    /\ UNCHANGED <<build, payload, timedOut, failureReply,
                   replyText, streams, declared>>
    /\ UNCHANGED nonVideo

\* part_002: the timer of timeoutPromise fires while handleVideo awaits a race.
\* The race rejects; every later stage hands its send to the client and races it
\* against the same, already rejected timeoutPromise, so it rejects at once: the
\* handler throws 'Upload timeout' with all these sends in flight
UploadTimeout ==
    /\ build = "governed"
    /\ ~timedOut
    /\ \E k \in 1..3 :
        /\ vpc = StagePc[k]
        /\ sends' = sends \o [i \in 1..(3 - k) |-> NewSend(k + i, payload)]
    /\ timedOut' = TRUE
    /\ vpc' = "thrown"
    /\ UNCHANGED <<build, payload, earlier, failureReply,
                   replyText, streams, declared>>
    /\ UNCHANGED <<transferVars, nonVideo>>

\* botx.js: the re-opening downloadFile returned; its stream is handed to the
\* client without a size check
StreamReopened(size) ==
    /\ vpc \in {"reopen2", "reopen3"}
    /\ dpc = "resolved"
    /\ LET stage == IF vpc = "reopen2" THEN 2 ELSE 3 IN
        /\ sends' = Append(sends, NewSend(stage, size))
        /\ vpc' = StagePc[stage]
    /\ streams' = Append(streams, "sent")
    /\ UNCHANGED <<build, payload, timedOut, earlier, failureReply,
                   replyText, declared>>
    /\ UNCHANGED <<transferVars, nonVideo>>

\* botx.js: the re-opening downloadFile threw: in stage 2 the catch block goes on
\* to stage 3, in stage 3 the handler throws
ReopenFails ==
    /\ vpc \in {"reopen2", "reopen3"}
    /\ dpc = "rejected"
    /\ IF vpc = "reopen2"
       THEN /\ vpc' = "reopen3"
            /\ Reopen
       ELSE /\ vpc' = "thrown"
            /\ UNCHANGED <<earlier, transferVars>>
    /\ UNCHANGED <<build, payload, sends, timedOut, failureReply,
                   replyText, streams, declared>>
    /\ UNCHANGED nonVideo

\* stage 3: await ctx.reply(caption, { parse_mode: "Markdown" })
CaptionReply(ok) ==
    /\ vpc = "caption"
    /\ vpc' = IF ok THEN "returned" ELSE "thrown"
    /\ UNCHANGED <<build, payload, sends, timedOut, earlier, failureReply,
                   replyText, streams, declared>>
    /\ UNCHANGED <<transferVars, nonVideo>>

\* handleVideo returned true: processTikTokUrl deletes the status message
\* (safeDeleteMessage swallows its errors) and ends
VideoRunDone ==
    /\ vpc = "returned"
    /\ vpc' = "Done"
    /\ UNCHANGED <<build, payload, sends, timedOut, earlier, failureReply,
                   replyText, streams, declared>>
    /\ UNCHANGED <<transferVars, nonVideo>>

\* the error object axios rejects with: its code, and the status number its
\* message names ('Request failed with status code 403')
axiosError(err) ==
    [code |-> IF err \in {"403", "404"} THEN "ERR_BAD_REQUEST" ELSE err,
     mentions |-> IF err \in {"403", "404"} THEN err ELSE "none"]

\* what a rejected downloadFile call rejects with. After the loop:
\* throw new Error(`Failed to download after ${retries} attempts. Last error:
\* ${lastError?.message}`), a new Error with the last message and no code. A body
\* that failed rejects with the error of the stream or of the timer as it is.
downloadError(fs) ==
    LET last == fs[Len(fs)] IN
    IF last \in StreamErrors THEN [code |-> "none", mentions |-> "none"]
    ELSE [code |-> "none", mentions |-> axiosError(last).mentions]

\* the catch block of handleVideo: error.code === 'ECONNREFUSED', error.code ===
\* 'ETIMEDOUT', error.message.includes('403'), error.message.includes('404'),
\* otherwise throw error. The result names the message the failure reply carries.
translate(e) ==
    IF e.code = "ECONNREFUSED" THEN "retry-later"
    ELSE IF e.code = "ETIMEDOUT" THEN "timeout"
    ELSE IF e.mentions = "403" THEN "denied"
    ELSE IF e.mentions = "404" THEN "not-found"
    ELSE "generic"

\* handleVideo threw: its catch block translates the error, the catch block of
\* processTikTokUrl replies `Gagal mengunduh konten: ${error.message}`. The errors
\* of the size checks, of the status edit and of the sends carry no code and
\* name no status number.
VideoRunFails ==
    /\ vpc = "thrown"
    /\ failureReply' = TRUE
    /\ replyText' = translate(IF dpc = "rejected" THEN downloadError(failures)
                              ELSE [code |-> "none", mentions |-> "none"])
    /\ vpc' = "Errored"
    /\ UNCHANGED <<build, payload, sends, timedOut, earlier, streams, declared>>
    /\ UNCHANGED <<transferVars, nonVideo>>

NextVideo ==
    \/ ResponseArrives
    \/ \E err \in RequestErrors : RequestFails(err)
    \/ NextAttempt
    \/ WriterFinishes
    \/ \E err \in StreamErrors : BodyRejects(err)
    \/ VideoTransferFails
    \/ \E len \in Declared : VideoValidated(len)
    \/ \E ok \in BOOLEAN : SendingStatus(ok)
    \/ \E k \in 1..3, ok \in BOOLEAN : SendSettles(k, ok)
    \/ UploadTimeout
    \/ \E size \in Sizes : StreamReopened(size)
    \/ ReopenFails
    \/ \E ok \in BOOLEAN : CaptionReply(ok)
    \/ VideoRunDone
    \/ VideoRunFails

SpecVideo == InitVideo /\ [][NextVideo]_vars

----------------------------------------------------------------------------
(* Claims about the delivery of a video *)

\* C14 (as claimed): once a request for the media locator was sent with the
\* cookie, no later request of the same pipeline run for that locator is sent
\* without it, the re-opens of the streaming variant included.
C14_CookieNeverDropped ==
    LET all == earlier \o requests IN
    \A i, j \in DOMAIN all : (i < j /\ all[i]) => all[j]

\* C17 (as claimed): the stages of a video delivery are attempted in a fixed order,
\* stage k+1 only when the send of stage k raised a send error and none after a
\* stage succeeded, so that at most three media sends are made per link.
C17_StagesInOrder ==
    /\ Len(sends) <= 3
    /\ \A k \in DOMAIN sends :
        k > 1 => /\ sends[k - 1].stage < sends[k].stage
                 /\ sends[k - 1].st = "rejected"

\* C18 (as claimed): once the media send of any stage was accepted by the
\* messaging client, the run does not end Errored and no failure reply is sent.
C18_AcceptedMeansNoFailure ==
    (\E k \in DOMAIN sends : sends[k].st = "accepted")
        => (vpc # "Errored" /\ ~failureReply)

\* C19 (as claimed): at most one video message per run is accepted by the
\* messaging client, and exactly one when the run ends Done, whatever the
\* interleaving of send completions and upload-timeout expiries.
C19_AtMostOneVideo ==
    LET n == Cardinality({k \in DOMAIN sends : sends[k].st = "accepted"}) IN
    /\ n <= 1
    /\ vpc = "Done" => n = 1

----------------------------------------------------------------------------
(* handleImageSlideshow of part_000 (temp files, one media group), botx.js    *)
(* (buffers with a temp-file fallback, chunks) and part_002 (temp files,      *)
(* chunks), from its downloads to the end of processTikTokUrl.                *)

\* largest number of images of an image set in SpecImages
MaxSet == 4

\* the size of a media group, "Telegram limit: 10 per group" (10 in the source)
groupLimit == 2
\* part_000: the individual fallback sends Math.min(length, 5) images (5 in the source)
individualLimit == 1

Min(a, b) == IF a < b THEN a ELSE b

\* the elements of a set of image indexes in increasing order
Ascending(S) ==
    CHOOSE q \in [1..Cardinality(S) -> S] :
        \A i, j \in 1..Cardinality(S) : i < j => q[i] < q[j]

Pending == [st |-> "pending", via |-> "none", size |-> "none"]
\* downloadFile threw, or the stream emitted 'error'
Rejected == [st |-> "fail", via |-> "none", size |-> "none"]

\* the size check of each way an image is obtained: `if (result.size < 1024) throw`
\* for a temp file, `if (buffer.length < 1024) reject` for a buffer, none for the
\* temp-file fallback of botx.js
checked(via, size) == via = "fallback" \/ size = "big"

Obtained(via, size) ==
    [st |-> IF checked(via, size) THEN "ok" ELSE "fail", via |-> via, size |-> size]

\* the outcomes of the promise of one image
ImageOutcomes(b) ==
    {Rejected} \cup
    IF b = "stream"
    THEN {Obtained(via, size) : via \in {"buffer", "fallback"}, size \in Sizes}
    ELSE {Obtained("file", size) : size \in Sizes}

\* successfulDownloads / successfulImages, as indexes of data.images
successful == {i \in DOMAIN imgs : imgs[i].st = "ok"}
\* failedDownloads.length
failedCount == Cardinality({i \in DOMAIN imgs : imgs[i].st = "fail"})

\* part_000: successfulDownloads.slice(0, Math.min(length, 10)) as the one media
\* group; botx.js and part_002: for (i = 0; i < length; i += 10) slice(i, i + 10)
chunksOf(b, good) ==
    LET q == Ascending(good)
        n == Len(q)
        count == IF b = "disk" THEN 1 ELSE (n + groupLimit - 1) \div groupLimit
    IN  [c \in 1..count |->
            [items |-> {q[j] : j \in ((c - 1) * groupLimit + 1)..Min(c * groupLimit, n)},
             st |-> "markdown"]]

\* the images of the individual fallback: part_000 the first Math.min(length, 5)
\* of successfulDownloads, botx.js and part_002 every item of the chunk
individuals(b, good, chunk) ==
    IF b = "disk"
    THEN LET q == Ascending(good) IN {q[j] : j \in 1..Min(Len(q), individualLimit)}
    ELSE chunk.items

\* handleImageSlideshow has edited the status and mapped data.images to promises
InitImages ==
    /\ ResourceManager
    /\ MessageIdle
    /\ FetchIdle
    /\ RunIdle
    /\ TransferIdle
    /\ VideoIdle
    /\ ibuild \in Builds
    /\ \E m \in 1..MaxSet : imgs = [i \in 1..m |-> Pending]
    /\ ipc = "download"
    /\ chunks = <<>>
    /\ offered = {}
    /\ accepted = {}
    /\ notices = <<>>
    /\ HelperIdle

\* the promise of image i settles
ImageSettles(i, out) ==
    /\ ipc = "download"
    /\ i \in DOMAIN imgs
    /\ imgs[i] = Pending
    /\ out \in ImageOutcomes(ibuild)
    /\ imgs' = [imgs EXCEPT ![i] = out]
    /\ UNCHANGED <<ibuild, ipc, chunks, offered, accepted, notices>>
    /\ UNCHANGED nonImages

\* await Promise.allSettled(...) returns: throw when no image succeeded
AllImagesSettled ==
    /\ ipc = "download"
    /\ \A i \in DOMAIN imgs : imgs[i] # Pending
    /\ ipc' = IF successful = {} THEN "thrown" ELSE "status"
    /\ UNCHANGED <<ibuild, imgs, chunks, offered, accepted, notices>>
    /\ UNCHANGED nonImages

\* await ctx.api.editMessageText(...), then the media groups are built and the
\* first replyWithMediaGroup of each is handed to the client
SendingImages(ok) ==
    /\ ipc = "status"
    /\ IF ok
       THEN /\ chunks' = chunksOf(ibuild, successful)
            /\ offered' = UNION {chunks'[c].items : c \in DOMAIN chunks'}
            /\ ipc' = "send"
       ELSE /\ ipc' = "thrown"
            /\ UNCHANGED <<chunks, offered>>
    /\ UNCHANGED <<ibuild, imgs, accepted, notices>>
    /\ UNCHANGED nonImages

\* the client accepts or rejects the replyWithMediaGroup of chunk c: rejected with
\* Markdown, the group is sent again without; rejected again, the images are sent
\* one by one with replyWithPhoto
GroupSettles(c, ok) ==
    /\ ipc = "send"
    /\ c \in DOMAIN chunks
    /\ chunks[c].st \in {"markdown", "plain"}
    /\ IF ok
       THEN /\ accepted' = accepted \cup chunks[c].items
            /\ chunks' = [chunks EXCEPT ![c].st = "done"]
            /\ UNCHANGED offered
       ELSE /\ chunks' = [chunks EXCEPT ![c].st =
                             IF chunks[c].st = "markdown" THEN "plain" ELSE "individual"]
            /\ offered' = IF chunks[c].st = "markdown" THEN offered
                          ELSE offered \cup individuals(ibuild, successful, chunks[c])
            /\ UNCHANGED accepted
    /\ UNCHANGED <<ibuild, ipc, imgs, notices>>
    /\ UNCHANGED nonImages

\* the replyWithPhoto calls of chunk c are over: the client accepted those of S,
\* the errors of the others were logged
IndividualSends(c, S) ==
    /\ ipc = "send"
    /\ c \in DOMAIN chunks
    /\ chunks[c].st = "individual"
    /\ S \subseteq individuals(ibuild, successful, chunks[c])
    /\ accepted' = accepted \cup S
    /\ chunks' = [chunks EXCEPT ![c].st = "done"]
    /\ UNCHANGED <<ibuild, ipc, imgs, offered, notices>>
    /\ UNCHANGED nonImages

\* every chunk is done (await Promise.allSettled(sendPromises))
SendsFinished ==
    /\ ipc = "send"
    /\ \A c \in DOMAIN chunks : chunks[c].st = "done"
    /\ ipc' = "shortfall"
    /\ UNCHANGED <<ibuild, imgs, chunks, offered, accepted, notices>>
    /\ UNCHANGED nonImages

\* if (failedDownloads.length > 0) await ctx.reply(`... ${failedDownloads.length}
\* gambar gagal ... dari total ${images.length} gambar.`)
ShortfallNotice(ok) ==
    /\ ipc = "shortfall"
    /\ LET next == IF ibuild = "disk" /\ Cardinality(successful) > groupLimit
                   THEN "firstten" ELSE "returned"
       IN  IF failedCount = 0
           THEN /\ ipc' = next
                /\ UNCHANGED notices
           ELSE IF ok
           THEN /\ notices' = Append(notices, [kind |-> "shortfall",
                                               failed |-> failedCount, total |-> Len(imgs)])
                /\ ipc' = next
           ELSE /\ ipc' = "thrown"
                /\ UNCHANGED notices
    /\ UNCHANGED <<ibuild, imgs, chunks, offered, accepted>>
    /\ UNCHANGED nonImages

\* part_000: if (successfulDownloads.length > 10) await ctx.reply(`Hanya 10 gambar
\* pertama yang dikirim ...`)
FirstTenNotice(ok) ==
    /\ ipc = "firstten"
    /\ IF ok
       THEN /\ notices' = Append(notices, [kind |-> "firstten", failed |-> 0,
                                           total |-> Cardinality(successful)])
            /\ ipc' = "returned"
       ELSE /\ ipc' = "thrown"
            /\ UNCHANGED notices
    /\ UNCHANGED <<ibuild, imgs, chunks, offered, accepted>>
    /\ UNCHANGED nonImages

\* handleImageSlideshow returned true: processTikTokUrl ends
ImageRunDone ==
    /\ ipc = "returned"
    /\ ipc' = "Done"
    /\ UNCHANGED <<ibuild, imgs, chunks, offered, accepted, notices>>
    /\ UNCHANGED nonImages

\* handleImageSlideshow threw: catch of processTikTokUrl, failure reply
ImageRunFails ==
    /\ ipc = "thrown"
    /\ ipc' = "Errored"
    /\ UNCHANGED <<ibuild, imgs, chunks, offered, accepted, notices>>
    /\ UNCHANGED nonImages

NextImages ==
    \/ \E i \in 1..MaxSet, out \in ImageOutcomes(ibuild) : ImageSettles(i, out)
    \/ AllImagesSettled
    \/ \E ok \in BOOLEAN : SendingImages(ok)
    \/ \E c \in 1..MaxSet, ok \in BOOLEAN : GroupSettles(c, ok)
    \/ \E c \in 1..MaxSet, S \in SUBSET (1..MaxSet) : IndividualSends(c, S)
    \/ \E ok \in BOOLEAN : ShortfallNotice(ok)
    \/ SendsFinished
    \/ \E ok \in BOOLEAN : FirstTenNotice(ok)
    \/ ImageRunDone
    \/ ImageRunFails

SpecImages == InitImages /\ [][NextImages]_vars

----------------------------------------------------------------------------
(* Claims about validation and the delivery of an image set *)

\* C15 (as claimed): no payload of zero bytes or of less than 1024 bytes is handed
\* to the messaging client, for a video and for every image of a set, whichever
\* way it was obtained (file, stream, buffer, temp-file fallback).
C15_NoImplausiblePayloadSent ==
    /\ \A i \in offered : imgs[i].size = "big"
    /\ \A k \in DOMAIN sends : sends[k].size = "big"

\* C16 (as claimed): of M images of which F failed, with 0 < M-F < M a run whose
\* handler returned has sent exactly the M-F successful images and exactly one
\* shortfall notice stating F and M; with F = M the delivery fails and no image
\* is sent.
C16_PartialSuccess ==
    LET M == Len(imgs)
        F == failedCount
        shortfalls == SelectSeq(notices, LAMBDA n : n.kind = "shortfall")
    IN  /\ (ipc \in {"returned", "Done"} /\ 0 < M - F /\ M - F < M)
            => /\ offered = successful
               /\ shortfalls = <<[kind |-> "shortfall", failed |-> F, total |-> M]>>
        /\ (M > 0 /\ F = M) => (offered = {} /\ ipc \notin {"send", "returned", "Done"})

----------------------------------------------------------------------------
(* Claim about the download permits of the governed run *)

\* C20 (as claimed): in the governed variant the downloads in flight (request
\* issued, body not yet completely written or failed) never exceed
\* maxConcurrentDownloads, and a download permit is released only when the
\* transfer it covers has finished or failed.
C20_DownloadsWithinCeiling ==
    /\ Cardinality({i \in DOMAIN dls : dls[i].st \in {"try", "stream"}})
           <= maxConcurrentDownloads
    /\ \A i \in DOMAIN dls :
        (i \in DOMAIN released.download /\ released.download[i] > 0)
            => dls[i].st \in {"ok", "fail"}

----------------------------------------------------------------------------
(* The message:text handler of part_000 (links one after the other), botx.js  *)
(* and part_002 (links concurrently), and processTikTokUrl for each link with *)
(* the content handler as one step. acquireUserSlot of part_002 is followed   *)
(* in SpecGov and SpecRun, not here.                                          *)

\* largest number of links in one message
MaxLinks == 2

\* part_000: const maxUrls = 3; urls.slice(0, maxUrls)
maxUrls == 3

\* what canDeleteMessages met: the bot may delete, may not, or getChatMember threw
PermissionOutcomes == {"granted", "denied", "failed"}

\* processTikTokUrl not yet called for the link
NewLink ==
    [pc |-> "idle", canDelete |-> FALSE, statusMessage |-> FALSE, success |-> FALSE,
     perm |-> "none", cause |-> "none", statusSent |-> FALSE, statusDeletes |-> 0,
     origDeletes |-> 0, failureReplies |-> 0, escaped |-> FALSE]

\* processTikTokUrl is called: if (isGroup && AUTO_DELETE_CONFIG.enabled) the
\* permission check comes first
Called(group) == [NewLink EXCEPT !.pc = IF group THEN "perm" ELSE "typing"]

\* the links the handler processes: part_000 the first maxUrls, the others all
toProcess(b, n) == IF b = "disk" THEN 1..Min(n, maxUrls) ELSE 1..n

finished(l) == l.pc \in {"Done", "Errored"}

\* canDeleteMessages: true when getChatMember says so, false when it does not
\* and when it throws (the catch returns false)
canDeleteMessages(out) == out = "granted"

mayDeleteOriginal_noperm(success, group, canDelete) == success /\ group

\* if (success && isGroup && AUTO_DELETE_CONFIG.enabled &&
\*     (!AUTO_DELETE_CONFIG.onlyInGroups || isGroup) && canDelete)
mayDeleteOriginal(success, group, canDelete) == success /\ group /\ canDelete

\* the delete requests for the status message on the error path: part_000 and
\* botx.js one in the catch block after the failure reply went out and one in
\* finally, both under `if (statusMessage)`; part_002 none
deletesOnError(b, replied, statusMessage) ==
    IF b = "governed" \/ ~statusMessage THEN 0
    ELSE IF replied THEN 2 ELSE 1

InitMessage ==
    /\ ResourceManager
    /\ FetchIdle /\ RunIdle /\ TransferIdle /\ VideoIdle /\ ImagesIdle
    /\ mbuild \in Builds
    /\ isGroup \in BOOLEAN
    /\ mpc = "handling"
    /\ \E n \in 1..MaxLinks :
        links = [r \in 1..n |-> IF mbuild = "disk" /\ r > 1 THEN NewLink
                                ELSE Called(isGroup)]
    /\ batchReplies = 0
    /\ internalReplies = 0
    /\ HelperIdle

\* part_000: the for loop awaits the call of link r - 1, waits a second and calls
\* processTikTokUrl for link r
StartLink(r) ==
    /\ mpc = "handling"
    /\ mbuild = "disk"
    /\ r \in toProcess(mbuild, Len(links)) /\ r > 1
    /\ links[r].pc = "idle"
    /\ finished(links[r - 1]) /\ ~links[r - 1].escaped
    /\ links' = [links EXCEPT ![r] = Called(isGroup)]
    /\ UNCHANGED <<mbuild, isGroup, mpc, batchReplies, internalReplies>>
    /\ UNCHANGED nonMessage

\* canDelete = await canDeleteMessages(ctx)
PermissionCheck(r, out) ==
    /\ r \in DOMAIN links
    /\ links[r].pc = "perm"
    /\ links' = [links EXCEPT ![r].perm = out,
                              ![r].canDelete = canDeleteMessages(out),
                              ![r].pc = "typing"]
    /\ UNCHANGED <<mbuild, isGroup, mpc, batchReplies, internalReplies>>
    /\ UNCHANGED nonMessage

\* await ctx.replyWithChatAction("typing")
Typing(r, ok) ==
    /\ r \in DOMAIN links
    /\ links[r].pc = "typing"
    /\ links' = IF ok THEN [links EXCEPT ![r].pc = "status"]
                ELSE [links EXCEPT ![r].pc = "catch", ![r].cause = "typing"]
    /\ UNCHANGED <<mbuild, isGroup, mpc, batchReplies, internalReplies>>
    /\ UNCHANGED nonMessage

\* statusMessage = await ctx.reply("Mengunduh konten TikTok...")
StatusReply(r, ok) ==
    /\ r \in DOMAIN links
    /\ links[r].pc = "status"
    /\ links' = IF ok THEN [links EXCEPT ![r].pc = "fetch", ![r].statusMessage = TRUE,
                                         ![r].statusSent = TRUE]
                ELSE [links EXCEPT ![r].pc = "catch", ![r].cause = "status"]
    /\ UNCHANGED <<mbuild, isGroup, mpc, batchReplies, internalReplies>>
    /\ UNCHANGED nonMessage

\* const result = await fetchTikTokData(url)
FetchEnds(r, ok) ==
    /\ r \in DOMAIN links
    /\ links[r].pc = "fetch"
    /\ links' = IF ok THEN [links EXCEPT ![r].pc = "edit"]
                ELSE [links EXCEPT ![r].pc = "catch", ![r].cause = "fetch"]
    /\ UNCHANGED <<mbuild, isGroup, mpc, batchReplies, internalReplies>>
    /\ UNCHANGED nonMessage

\* await ctx.api.editMessageText(..., "Memproses konten...")
StatusEdit(r, ok) ==
    /\ r \in DOMAIN links
    /\ links[r].pc = "edit"
    /\ links' = IF ok THEN [links EXCEPT ![r].pc = "handler"]
                ELSE [links EXCEPT ![r].pc = "catch", ![r].cause = "edit"]
    /\ UNCHANGED <<mbuild, isGroup, mpc, batchReplies, internalReplies>>
    /\ UNCHANGED nonMessage

\* success = await handleVideo(...) / handleImageSlideshow(...): returns true or
\* throws (transfer, validation, delivery)
ContentHandled(r, ok) ==
    /\ r \in DOMAIN links
    /\ links[r].pc = "handler"
    /\ links' = IF ok THEN [links EXCEPT ![r].pc = "delstatus", ![r].success = TRUE]
                ELSE [links EXCEPT ![r].pc = "catch", ![r].cause = "handler"]
    /\ UNCHANGED <<mbuild, isGroup, mpc, batchReplies, internalReplies>>
    /\ UNCHANGED nonMessage

\* if (AUTO_DELETE_CONFIG.deleteStatusMessages && statusMessage)
\*     { await safeDeleteMessage(ctx, statusMessage.message_id); statusMessage = null }
\* safeDeleteMessage catches what deleteMessage throws
DeleteStatus(r) ==
    /\ r \in DOMAIN links
    /\ links[r].pc = "delstatus"
    /\ LET l == links[r] IN
        links' = [links EXCEPT
            ![r].statusDeletes = l.statusDeletes + (IF l.statusMessage THEN 1 ELSE 0),
            ![r].statusMessage = FALSE,
            ![r].pc = IF mayDeleteOriginal(l.success, isGroup, l.canDelete)
                      THEN "delorig" ELSE "Done"]
    /\ UNCHANGED <<mbuild, isGroup, mpc, batchReplies, internalReplies>>
    /\ UNCHANGED nonMessage

\* await safeDeleteMessage(ctx, originalMessageId, AUTO_DELETE_CONFIG.deleteDelay)
DeleteOriginal(r) ==
    /\ r \in DOMAIN links
    /\ links[r].pc = "delorig"
    /\ links' = [links EXCEPT ![r].origDeletes = links[r].origDeletes + 1,
                              ![r].pc = "Done"]
    /\ UNCHANGED <<mbuild, isGroup, mpc, batchReplies, internalReplies>>
    /\ UNCHANGED nonMessage

FailureReplyLink_ifstatus(r, ok) ==
    /\ r \in DOMAIN links
    /\ links[r].pc = "catch"
    /\ LET l == links[r] IN
        links' = [links EXCEPT
            ![r].failureReplies = l.failureReplies + (IF l.statusMessage THEN 1 ELSE 0),
            ![r].statusDeletes = l.statusDeletes + deletesOnError(mbuild, ok, l.statusMessage),
            ![r].escaped = ~ok,
            ![r].pc = "Errored"]
    /\ UNCHANGED <<mbuild, isGroup, mpc, batchReplies, internalReplies>>
    /\ UNCHANGED nonMessage

\* catch (error) { await ctx.reply(`Gagal mengunduh konten: ${error.message}`); ... }
\* and finally. When the reply throws, the rest of the catch block is skipped and
\* the exception leaves processTikTokUrl after finally
FailureReplyLink(r, ok) ==
    /\ r \in DOMAIN links
    /\ links[r].pc = "catch"
    /\ LET l == links[r] IN
        links' = [links EXCEPT
            ![r].failureReplies = l.failureReplies + 1,
            ![r].statusDeletes = l.statusDeletes + deletesOnError(mbuild, ok, l.statusMessage),
            ![r].escaped = ~ok,
            ![r].pc = "Errored"]
    /\ UNCHANGED <<mbuild, isGroup, mpc, batchReplies, internalReplies>>
    /\ UNCHANGED nonMessage

\* part_000: an exception that left processTikTokUrl leaves the for loop and the
\* handler; bot.catch replies 'Terjadi kesalahan internal'
LoopAborted ==
    /\ mpc = "handling"
    /\ mbuild = "disk"
    /\ \E r \in DOMAIN links : finished(links[r]) /\ links[r].escaped
    /\ internalReplies' = internalReplies + 1
    /\ mpc' = "caught"
    /\ UNCHANGED <<mbuild, isGroup, links, batchReplies>>
    /\ UNCHANGED nonMessage

\* every call has ended: part_000 the loop is over; botx.js and part_002
\* Promise.allSettled returns, and if (failed > 0 && urls.length > 1) the handler
\* goes on to reply the count of the failed links
MessageHandled ==
    /\ mpc = "handling"
    /\ \A r \in toProcess(mbuild, Len(links)) : finished(links[r]) /\
                                                (mbuild = "disk" => ~links[r].escaped)
    /\ LET failedLinks == {r \in DOMAIN links : links[r].escaped} IN
        mpc' = IF mbuild # "disk" /\ failedLinks # {} /\ Len(links) > 1
               THEN "batch" ELSE "end"
    /\ UNCHANGED <<mbuild, isGroup, links, batchReplies, internalReplies>>
    /\ UNCHANGED nonMessage

\* await ctx.reply(`${failed} dari ${urls.length} link gagal diproses. ...`): when
\* it throws, botx.js ends in bot.catch, part_002 logs it
BatchReply(ok) ==
    /\ mpc = "batch"
    /\ batchReplies' = batchReplies + 1
    /\ IF ok \/ mbuild = "governed"
       THEN /\ mpc' = "end"
            /\ UNCHANGED internalReplies
       ELSE /\ mpc' = "caught"
            /\ internalReplies' = internalReplies + 1
    /\ UNCHANGED <<mbuild, isGroup, links>>
    /\ UNCHANGED nonMessage

NextMessage ==
    \/ \E r \in 1..MaxLinks : StartLink(r)
    \/ \E r \in 1..MaxLinks, out \in PermissionOutcomes : PermissionCheck(r, out)
    \/ \E r \in 1..MaxLinks, ok \in BOOLEAN : Typing(r, ok)
    \/ \E r \in 1..MaxLinks, ok \in BOOLEAN : StatusReply(r, ok)
    \/ \E r \in 1..MaxLinks, ok \in BOOLEAN : FetchEnds(r, ok)
    \/ \E r \in 1..MaxLinks, ok \in BOOLEAN : StatusEdit(r, ok)
    \/ \E r \in 1..MaxLinks, ok \in BOOLEAN : ContentHandled(r, ok)
    \/ \E r \in 1..MaxLinks : DeleteStatus(r)
    \/ \E r \in 1..MaxLinks : DeleteOriginal(r)
    \/ \E r \in 1..MaxLinks, ok \in BOOLEAN : FailureReplyLink(r, ok)
    \/ LoopAborted
    \/ MessageHandled
    \/ \E ok \in BOOLEAN : BatchReply(ok)

SpecMessage == InitMessage /\ [][NextMessage]_vars

----------------------------------------------------------------------------
(* Claims about processTikTokUrl and the message:text handler *)

\* C21 (as claimed): for every status message a run has sent, a delete request
\* for it has been issued when the run has finished, Done or Errored, in every
\* variant.
C21_StatusDeleted ==
    \A r \in DOMAIN links :
        (finished(links[r]) /\ links[r].statusSent) => links[r].statusDeletes >= 1

\* C22: every run that ends Errored has sent exactly one failure reply
\* ('Gagal mengunduh konten: ...') for its link, whichever step threw; a run that
\* ends Done has sent none. The reply is counted when the run hands it to the
\* messaging client.
C22_OneFailureReply ==
    \A r \in DOMAIN links :
        /\ links[r].pc = "Errored" =>
            links[r].failureReplies = 1 /\ links[r].cause # "none"
        /\ links[r].pc = "Done" => links[r].failureReplies = 0

\* a run that failed before it had a status message, and one that failed in the
\* content handler, both Errored
C22_Witness ==
    /\ Len(links) = 2
    /\ links[1].pc = "Errored" /\ links[1].cause = "status" /\ ~links[1].statusSent
    /\ links[2].pc = "Errored" /\ links[2].cause = "handler"

\* C24 (as claimed): when the handler of a message has ended, every link it set
\* out to process has had its run, also after a run let an exception escape.
C24_SiblingsProcessed ==
    mpc \in {"end", "caught"} =>
        \A r \in toProcess(mbuild, Len(links)) : finished(links[r])

\* C25: the triggering message gets a delete request only after the content
\* handler reported success in a group chat with the permission check granted,
\* and at most one; a permission check that denied or threw leaves the message
\* in place and is never the step a run failed at: with every later step
\* succeeding the run ends Done.
C25_DeleteOriginalOnlyIfPermitted ==
    \A r \in DOMAIN links :
        LET l == links[r] IN
        /\ l.origDeletes <= 1
        /\ l.origDeletes = 1 => l.success /\ isGroup /\ l.perm = "granted"
        /\ l.pc = "delorig" => l.success /\ isGroup /\ l.perm = "granted"
        /\ l.perm \in {"denied", "failed"} =>
            /\ l.origDeletes = 0
            /\ l.pc # "perm"
            /\ l.pc \in {"catch", "Errored"} =>
                l.cause \in {"typing", "status", "fetch", "edit", "handler"}
            /\ (finished(l) /\ l.success) => l.pc = "Done"

\* one message in a group: a run whose permission check threw and a run whose
\* permission check was granted, both Done after a successful delivery
C25_Witness ==
    /\ isGroup
    /\ Len(links) = 2
    /\ links[1].pc = "Done" /\ links[1].perm = "failed" /\ links[1].success
    /\ links[1].origDeletes = 0
    /\ links[2].pc = "Done" /\ links[2].perm = "granted" /\ links[2].origDeletes = 1

----------------------------------------------------------------------------
(* Claims about the failure reply of a video whose transfer failed *)

\* C23 (as claimed): when the transfer of a video failed on every attempt with
\* the same cause, the failure reply of the run carries the message of that
\* cause: connection refused 'try again in a few minutes', timeout 'too large
\* or connection slow', 403 'private or region-blocked', 404 'expired or
\* deleted', every other cause the generic message.
C23_ReplyNamesCause ==
    \A err \in {"ECONNREFUSED", "ETIMEDOUT", "403", "404", "other"} :
        ( /\ vpc = "Errored"
          /\ dpc = "rejected"
          /\ Len(failures) = dretries
          /\ \A i \in DOMAIN failures : failures[i] = err )
        => replyText = CASE err = "ECONNREFUSED" -> "retry-later"
                          [] err = "ETIMEDOUT" -> "timeout"
                          [] err = "403" -> "denied"
                          [] err = "404" -> "not-found"
                          [] OTHER -> "generic"

----------------------------------------------------------------------------
(* The Resource Governor with room for two users at a time: SpecGovPool *)

\* ADVANCED_CONFIG.maxConcurrentUsers scaled to one permit more, so that two runs
\* hold a user permit at the same time
largerUserPool == maxConcurrentUsers + 1

\* new ResourceManager() with n user permits
ResourceManagerOf(n) ==
    /\ sem = [s \in SemNames |->
                Semaphore(CASE s = "user" -> n
                            [] s = "upload" -> maxConcurrentUploads
                            [] OTHER -> maxConcurrentDownloads)]
    /\ activeUsers = <<>>
    /\ gpc = [r \in MoreRuns |-> "idle"]
    /\ userOf = [r \in MoreRuns |-> 1]
    /\ dl = [r \in MoreRuns |-> <<>>]
    /\ arrived = [s \in SemNames |-> 0]
    /\ ticket = [c \in Callers |-> 0]
    /\ maxGranted = [s \in SemNames |-> 0]
    /\ leftBehind = [s \in SemNames |-> 0]
    /\ heldFor = [r \in MoreRuns |-> -1]

InitGovPool ==
    /\ ResourceManagerOf(largerUserPool)
    /\ FetchIdle /\ RunIdle /\ TransferIdle /\ VideoIdle /\ ImagesIdle /\ MessageIdle
    /\ HelperIdle

SpecGovPool == InitGovPool /\ [][NextGov(Runs)]_vars

\* either pool: with one user permit the second run waits for the user slot,
\* with two it meets the first at the upload semaphore
InitGovFair ==
    /\ \E n \in {maxConcurrentUsers, largerUserPool} : ResourceManagerOf(n)
    /\ FetchIdle /\ RunIdle /\ TransferIdle /\ VideoIdle /\ ImagesIdle /\ MessageIdle
    /\ HelperIdle

\* what run r does once its link has arrived: every step after the call of
\* acquireUserSlot, up to the release of the user slot
RunStep(r) ==
    \/ RecordSlot(r)
    \/ BodyFails(r)
    \/ AcquireUploadSlot(r)
    \/ HandlerFailsEarly(r)
    \/ \E n \in 1..MaxImages : StartDownloads(r, n)
    \/ \E i \in 1..MaxImages : ReleaseDownload(r, i)
    \/ HandlerEnds(r)
    \/ ReleaseUserSlot(r)

\* every external call returns or fails and the event loop runs every
\* continuation that is ready: no run stops for good at a step it can take
SpecGovFair ==
    /\ InitGovFair
    /\ [][NextGov(Runs)]_vars
    /\ \A r \in Runs : WF_vars(RunStep(r))

----------------------------------------------------------------------------
(* Claims about the sweep, the permit counts and the session map *)

\* C26 (as claimed): a sweep that finds stale session slots leaves no run holding
\* a user permit for longer than the staleness threshold, also with several runs
\* of one user in flight; it leaves the younger slots, the holds of the younger
\* runs and the upload and download semaphores as they were.
C26_SweepReclaimsStale ==
    [][LET stale == StaleUsers(activeUsers) IN
        ( /\ stale # {}
          /\ DOMAIN activeUsers' = DOMAIN activeUsers \ stale
          /\ \A r \in MoreRuns : gpc[r] = "finishing" => gpc'[r] = "finishing" )
        => /\ \A r \in MoreRuns : heldFor'[r] <= timeout
           /\ \A u \in DOMAIN activeUsers' : activeUsers'[u] = activeUsers[u]
           /\ \A r \in MoreRuns :
                (heldFor[r] >= 0 /\ heldFor[r] <= timeout) => heldFor'[r] = heldFor[r]
           /\ sem'["upload"] = sem["upload"]
           /\ sem'["download"] = sem["download"]]_vars

\* C27: on each of the three semaphores the permit count is never negative, and
\* while a caller waits in the queue the permit count is 0.
C27_NoWaiterWhilePermitFree ==
    \A s \in SemNames :
        /\ sem[s].permits >= 0
        /\ sem[s].waiters # <<>> => sem[s].permits = 0

\* a run waits for the user permit while a download of the run that holds it
\* waits for the download permit
C27_Witness ==
    /\ sem["user"].waiters # <<>> /\ sem["user"].permits = 0
    /\ sem["download"].waiters # <<>> /\ sem["download"].permits = 0

\* C28 (as claimed): on each semaphore the free permits plus the permits granted
\* and not yet given back (by the holder or, for it, by the sweep) make up the
\* capacity, and the free permits never exceed the capacity.
C28_PermitsConserved ==
    LET usersHolding == {r \in MoreRuns : gpc[r] = "gotUser" \/ heldFor[r] >= 0}
        uploadsHolding == {r \in MoreRuns : gpc[r] \in {"gotUp", "downloading"}}
        downloadsHolding == {c \in Callers : c[2] \in DOMAIN dl[c[1]] /\ dl[c[1]][c[2]] = "hold"}
    IN  /\ sem["user"].permits + Cardinality(usersHolding) = maxConcurrentUsers
        /\ sem["upload"].permits + Cardinality(uploadsHolding) = maxConcurrentUploads
        /\ sem["download"].permits + Cardinality(downloadsHolding) = maxConcurrentDownloads
        /\ sem["user"].permits <= maxConcurrentUsers
        /\ sem["upload"].permits <= maxConcurrentUploads
        /\ sem["download"].permits <= maxConcurrentDownloads

\* C30 (as claimed): while a run holds a user permit, the session map has an
\* entry for the user of that run.
C30_HolderHasEntry ==
    \A r \in MoreRuns : heldFor[r] >= 0 => userOf[r] \in DOMAIN activeUsers

\* C29: when every external call returns or fails, every run whose link has
\* arrived finishes, and every caller suspended in acquire() of the user, the
\* upload or the download semaphore is granted its permit.
C29_NoDeadlock ==
    /\ \A r \in Runs : (gpc[r] # "idle") ~> (gpc[r] = "done")
    /\ \A r \in Runs : (gpc[r] \in {"waitUser", "waitUp"}) ~> (gpc[r] \in {"gotUser", "gotUp"})
    /\ \A r \in Runs : \A i \in 1..MaxImages :
        (i \in DOMAIN dl[r] /\ dl[r][i] = "wait") ~> (i \in DOMAIN dl[r] /\ dl[r][i] = "hold")

\* both runs hold a user permit; one holds the only upload permit and has an
\* image of its set waiting for a download permit, the other is suspended in
\* acquire() of the upload semaphore
C29_Witness ==
    \E r, q \in Runs :
        /\ heldFor[r] >= 0 /\ heldFor[q] >= 0
        /\ gpc[r] = "downloading"
        /\ Len(dl[r]) > maxConcurrentDownloads
        /\ \E i \in DOMAIN dl[r] : dl[r][i] = "wait"
        /\ gpc[q] = "waitUp"
        /\ sem["upload"].permits = 0

----------------------------------------------------------------------------
(* Further claims about processTikTokUrl *)

\* C40 (as claimed): a run issues at most one delete request for its status
\* message, on the success path and on the error path.
C40_StatusDeletedOnce ==
    \A r \in DOMAIN links : links[r].statusDeletes <= 1

----------------------------------------------------------------------------
(* Further claims about the delivery of an image set and of a video *)

\* C31 (as claimed): a run that ends Done has had at least one image or video
\* accepted by the messaging client; an image set whose every send was rejected
\* ends Errored.
C31_DoneMeansDelivered ==
    /\ ipc = "Done" => accepted # {}
    /\ vpc = "Done" => \E k \in DOMAIN sends : sends[k].st = "accepted"

\* C32 (as claimed): in the streaming variant, when the run has finished every
\* response stream it opened has been handed to a send or destroyed, also the
\* stream of a payload that validation rejected.
C32_NoStreamLeftOpen ==
    (build = "stream" /\ vpc \in {"Done", "Errored"}) =>
        \A k \in DOMAIN streams : streams[k] \in {"sent", "destroyed"}

\* C33 (as claimed): in the streaming variant a first response that declares no
\* content length is not rejected by the size checks of handleVideo.
C33_UnknownSizeNotRejected ==
    [][(build = "stream" /\ vpc = "download" /\ dpc = "resolved" /\ declared' = "absent")
        => vpc' # "thrown"]_vars

\* C34 (as claimed): in the governed variant a send that exceeds uploadTimeout
\* counts as a failed stage and the next stage gets a window of its own: a run
\* in which the send of a later stage was accepted after the timeout of an
\* earlier one does not end Errored.
C34_TimeoutDegrades ==
    (build = "governed" /\ timedOut /\ vpc = "Errored") =>
        ~(\E k \in DOMAIN sends : sends[k].stage > 1 /\ sends[k].st = "accepted")

\* C35 (as claimed): in the race variant, once fetchTikTokData has returned the
\* result of the winning tier, the losing tier makes no further Tiktok.Downloader
\* call for the link: no step taken after the return raises a call counter.
C35_LoserCancelled ==
    [][(variant = "race" /\ fpc = "returned") => calls' = calls]_vars

----------------------------------------------------------------------------
(* getBestVideoUrl, applied to every payload shape (SpecLocator) *)

\* data.video of a payload: absent, or an object whose five legacy fields are each
\* absent, a URL, an empty array or an array of one URL
VideoObjects ==
    {NoData.video} \cup
    [present : {TRUE}, playAddr : FieldVals, downloadAddr : FieldVals, play : FieldVals,
     noWaterMark : FieldVals, watermark : FieldVals]

\* no call of generateCaption and no retry loop is followed
CaptionIdle == desc = <<>> /\ quoted = <<>>
BackoffIdle == loop = <<>> /\ lattempt = 0 /\ lpc = "none" /\ waited = <<>>
LocatorIdle == urlArgs = <<>> /\ urlRet = "none"

InitLocator ==
    /\ ResourceManager
    /\ FetchIdle /\ RunIdle /\ TransferIdle /\ VideoIdle /\ ImagesIdle /\ MessageIdle
    /\ CaptionIdle /\ BackoffIdle
    /\ urlArgs \in [videoData : [type : {"video"}, images : {0}, video : VideoObjects],
                    apiVersion : Tiers]
    /\ urlRet = "none"

\* handleVideo: const videoUrl = getBestVideoUrl(data, apiVersion)
CallGetBestVideoUrl ==
    /\ UNCHANGED nonHelper
    /\ urlRet = "none"
    /\ urlRet' = getBestVideoUrl(urlArgs.videoData, urlArgs.apiVersion)
    /\ UNCHANGED <<urlArgs, desc, quoted, loop, lattempt, lpc, waited>>

NextLocator ==
    \/ CallGetBestVideoUrl

SpecLocator == InitLocator /\ [][NextLocator]_vars

\* C36: getBestVideoUrl returns a locator exactly when the reference operator
\* does. The reference: no locator when the data has no video object; for tier v2
\* the first element of video.playAddr when that field is an array, no locator
\* otherwise; for tier v1 the first present field in the order playAddr,
\* downloadAddr, play, noWaterMark, watermark, replaced by its first element when
\* it is an array. (A locator is the URL string; null and undefined are none.)
C36_MatchesReference ==
    urlRet # "none" =>
        LET v == urlArgs.videoData.video
            order == <<v.playAddr, v.downloadAddr, v.play, v.noWaterMark, v.watermark>>
            present == {i \in 1..5 : order[i] # "undef"}
            chosen == order[CHOOSE i \in present : \A j \in present : i <= j]
            elem(x) == IF x = "arr1" THEN "str" ELSE IF x = "arr0" THEN "nothing" ELSE x
            reference ==
                IF ~v.present THEN "nothing"
                ELSE IF urlArgs.apiVersion = "v2"
                THEN (IF v.playAddr \in {"arr0", "arr1"} THEN elem(v.playAddr)
                      ELSE "nothing")
                ELSE IF present = {} THEN "nothing" ELSE elem(chosen)
        IN /\ urlRet \in {"str", "null", "undef"}
           /\ (urlRet = "str") <=> (reference = "str")

\* C36 witness: for tier v1 playAddr is absent and downloadAddr is an array of
\* one URL: the call returned that URL
C36_Witness ==
    /\ urlRet = "str"
    /\ urlArgs.apiVersion = "v1"
    /\ urlArgs.videoData.video.playAddr = "undef"
    /\ urlArgs.videoData.video.downloadAddr = "arr1"

\* C37 (as claimed): for tier v1, when at least one of the five legacy fields
\* holds a URL (directly, or as the first element of an array), getBestVideoUrl
\* returns a URL, whatever the earlier fields hold.
C37_UsableFieldFound ==
    LET v == urlArgs.videoData.video
    IN (/\ urlRet # "none"
        /\ urlArgs.apiVersion = "v1"
        /\ v.present
        /\ \E x \in {v.playAddr, v.downloadAddr, v.play, v.noWaterMark, v.watermark} :
               x \in {"str", "arr1"})
       => urlRet = "str"

----------------------------------------------------------------------------
(* The retry loops of fetchTikTokData and downloadFile with their waits
   (SpecBackoff) *)

\* largest retry budget of a loop in SpecBackoff
MaxAttempts == 5

\* a delay without the cap of the governed variant
delay_uncapped(fn, b, k) == (2 ^ k) * 1000

\* const delay = ...: the backoff after failed attempt k, in milliseconds
delay(fn, b, k) ==
    IF b = "governed"
    THEN LET cap == IF fn = "fetchTikTokData" THEN 5000 ELSE 10000
             d == (2 ^ k) * 1000
         IN IF d < cap THEN d ELSE cap
    ELSE (2 ^ k) * 1000

InitBackoff ==
    /\ ResourceManager
    /\ FetchIdle /\ RunIdle /\ TransferIdle /\ VideoIdle /\ ImagesIdle /\ MessageIdle
    /\ LocatorIdle /\ CaptionIdle
    /\ loop \in [fn : {"fetchTikTokData", "downloadFile"},
                 build : {"disk", "stream", "governed"}, retries : 1..MaxAttempts]
    /\ lattempt = 1
    /\ lpc = "attempt"
    /\ waited = <<>>

\* the attempt fails: the catch block; `if (attempt < retries)` the wait, else
\* attempt++ ends the loop and the throw after it is reached
AttemptFails ==
    /\ UNCHANGED nonHelper
    /\ lpc = "attempt"
    /\ IF lattempt < loop.retries
       THEN /\ waited' = Append(waited, delay(loop.fn, loop.build, lattempt))
            /\ lpc' = "sleep"
            /\ UNCHANGED lattempt
       ELSE /\ lattempt' = lattempt + 1
            /\ lpc' = "threw"
            /\ UNCHANGED waited
    /\ UNCHANGED <<urlArgs, urlRet, desc, quoted, loop>>

\* the attempt succeeds: the loop returns
AttemptSucceeds ==
    /\ UNCHANGED nonHelper
    /\ lpc = "attempt"
    /\ lpc' = "returned"
    /\ UNCHANGED <<urlArgs, urlRet, desc, quoted, loop, lattempt, waited>>

\* the setTimeout of the wait fires: attempt++, the next attempt
WaitOver ==
    /\ UNCHANGED nonHelper
    /\ lpc = "sleep"
    /\ lattempt' = lattempt + 1
    /\ lpc' = "attempt"
    /\ UNCHANGED <<urlArgs, urlRet, desc, quoted, loop, waited>>

NextBackoff ==
    \/ AttemptFails
    \/ AttemptSucceeds
    \/ WaitOver

SpecBackoff == InitBackoff /\ [][NextBackoff]_vars

\* C38: the wait after failed attempt k (k smaller than the budget) is
\* 2^k x 1000 ms, in the governed variant at most 5000 ms for a fetch tier and
\* 10000 ms for a transfer; the waits grow strictly until they reach the cap;
\* a loop with budget n never waits more than n - 1 times, so no wait follows its
\* final attempt.
C38_Backoff ==
    lpc # "none" =>
        LET capped == loop.build = "governed"
            cap == IF loop.fn = "fetchTikTokData" THEN 5000 ELSE 10000
        IN /\ \A k \in 1..Len(waited) :
                  waited[k] = IF capped /\ (2 ^ k) * 1000 > cap THEN cap
                              ELSE (2 ^ k) * 1000
           /\ \A k \in 1..(Len(waited) - 1) :
                  waited[k] < waited[k + 1] \/ (capped /\ waited[k] = cap)
           /\ lpc \in {"attempt", "returned"} => Len(waited) = lattempt - 1
           /\ Len(waited) <= loop.retries - 1
           /\ lpc = "threw" => (lattempt = loop.retries + 1
                                /\ Len(waited) = loop.retries - 1)

\* C38 witness: a fetch tier of the governed variant failed all its five attempts;
\* it waited 2000, 4000, 5000 and 5000 ms and not after the fifth
C38_Witness ==
    /\ loop # <<>>
    /\ loop.fn = "fetchTikTokData" /\ loop.build = "governed"
    /\ lpc = "threw"
    /\ waited = <<2000, 4000, 5000, 5000>>

----------------------------------------------------------------------------
(* generateCaption: the description part of the caption (SpecCaption) *)

\* most whitespace characters in front of and behind the text of a description
MaxPad == 3

\* the number of characters of a description from its first to its last
\* non-whitespace character: none, one, and the lengths around the limit
CoreLengths == {0, 1, 299, 300, 301}

\* a description: `lead` whitespace characters, `core` characters that start and
\* end with a non-whitespace one, `trail` whitespace characters
Descriptions == [lead : 0..MaxPad, core : CoreLengths, trail : 0..MaxPad]

\* description.length
length(d) == d.lead + d.core + d.trail

\* description.trim()
trim(d) == [lead |-> 0, core |-> d.core, trail |-> 0]

\* s.substring(0, n) of a trimmed string
substring(s, n) == IF s.core <= n THEN s ELSE [lead |-> 0, core |-> n, trail |-> 0]

\* generateCaption: `if (description && description.trim())` the description
\* line: cleanDesc and the '...' marker
generateCaption(description) ==
    IF length(description) > 0 /\ length(trim(description)) > 0
    THEN [present |-> TRUE,
          cleanDesc |-> length(substring(trim(description), 300)),
          marker |-> length(description) > 300]
    ELSE [present |-> FALSE, cleanDesc |-> 0, marker |-> FALSE]

InitCaption ==
    /\ ResourceManager
    /\ FetchIdle /\ RunIdle /\ TransferIdle /\ VideoIdle /\ ImagesIdle /\ MessageIdle
    /\ LocatorIdle /\ BackoffIdle
    /\ desc \in Descriptions
    /\ quoted = <<>>

\* handleVideo / handleImageSlideshow: const caption = generateCaption(data, ...)
CallGenerateCaption ==
    /\ UNCHANGED nonHelper
    /\ quoted = <<>>
    /\ quoted' = generateCaption(desc)
    /\ UNCHANGED <<urlArgs, urlRet, desc, loop, lattempt, lpc, waited>>

NextCaption ==
    \/ CallGenerateCaption

SpecCaption == InitCaption /\ [][NextCaption]_vars

\* C39 (as claimed): the caption carries the '...' marker exactly when the
\* description it shows was truncated, that is when the trimmed description is
\* longer than 300 characters; the description shown has at most 300 characters.
C39_MarkerIffTruncated ==
    (quoted # <<>> /\ quoted.present) =>
        /\ quoted.marker <=> (length(trim(desc)) > 300)
        /\ quoted.cleanDesc <= 300
====
